---- MODULE Spec2Model ----
(***************************************************************************)
(* Model of the Telegram Media Dashboard (React component App): the row    *)
(* normalizer (parseDate, mapRowToPost), the upload handler with its       *)
(* asynchronous FileReader, the selector state, the memoized option lists  *)
(* and filter, and the aggregators over the filtered records.              *)
(*                                                                         *)
(* Representation                                                          *)
(*  - A JavaScript number is a record [n, d]: the rational n/d in lowest   *)
(*    terms when d > 0, NaN when n = 0 /\ d = 0, +Infinity / -Infinity     *)
(*    when d = 0 and n = 1 / n = -1.  Negative zero is not distinguished.  *)
(*  - A JavaScript string is the sequence of its UTF-16 code units.        *)
(*  - A Date is its time value, a number: seconds since 1970-01-01T00:00Z  *)
(*    (the model's inputs carry no milliseconds) or NaN (Invalid Date).    *)
(***************************************************************************)
EXTENDS Integers, Sequences, FiniteSets, TLC

\* ------------------------------------------------------------------------
\* Bounds of the model
\* ------------------------------------------------------------------------

\* FileReaders that may be reading at the same time.
MaxInflight == 2

\* Rows of a generated spreadsheet (specification SpecPipeline).
MaxRows == 3

\* ------------------------------------------------------------------------
\* JavaScript numbers
\* ------------------------------------------------------------------------

RECURSIVE GCD(_, _)
GCD(a, b) == IF b = 0 THEN a ELSE GCD(b, a % b)

Abs(i) == IF i < 0 THEN -i ELSE i

NaNNum == [n |-> 0, d |-> 0]

PosInf == [n |-> 1, d |-> 0]

NegInf == [n |-> -1, d |-> 0]

\* The rational num/den (den > 0) in lowest terms.
Rat(num, den) ==
  LET g == GCD(Abs(num), den)
  IN  [n |-> num \div g, d |-> den \div g]

Int2Num(i) == [n |-> i, d |-> 1]

Zero == Int2Num(0)

IsNaN(x) == x.d = 0 /\ x.n = 0

IsFinite(x) == x.d > 0

IsInteger(x) == x.d = 1

\* ToBoolean of a number: false for 0 and NaN.
NumTruthy(x) == ~IsNaN(x) /\ x.n # 0

NNeg(x) == [n |-> -x.n, d |-> x.d]

NAdd(a, b) ==
  IF IsNaN(a) \/ IsNaN(b) THEN NaNNum
  ELSE IF ~IsFinite(a) /\ ~IsFinite(b) THEN (IF a.n = b.n THEN a ELSE NaNNum)
  ELSE IF ~IsFinite(a) THEN a
  ELSE IF ~IsFinite(b) THEN b
  ELSE Rat(a.n * b.d + b.n * a.d, a.d * b.d)

NSub(a, b) == NAdd(a, NNeg(b))

Sign(i) == IF i < 0 THEN -1 ELSE IF i > 0 THEN 1 ELSE 0

NMul(a, b) ==
  IF IsNaN(a) \/ IsNaN(b) THEN NaNNum
  ELSE IF ~IsFinite(a) \/ ~IsFinite(b)
       THEN (IF a.n = 0 \/ b.n = 0 THEN NaNNum
             ELSE [n |-> Sign(a.n) * Sign(b.n), d |-> 0])
  ELSE Rat(a.n * b.n, a.d * b.d)

NDiv(a, b) ==
  IF IsNaN(a) \/ IsNaN(b) THEN NaNNum
  ELSE IF ~IsFinite(a) /\ ~IsFinite(b) THEN NaNNum
  ELSE IF ~IsFinite(a) THEN (IF b.n < 0 THEN NNeg(a) ELSE a)
  ELSE IF ~IsFinite(b) THEN Zero
  ELSE IF b.n = 0 THEN (IF a.n = 0 THEN NaNNum
                        ELSE [n |-> Sign(a.n), d |-> 0])
  ELSE Rat(Sign(b.n) * a.n * b.d, a.d * Abs(b.n))

\* a < b; false when either is NaN.
NLt(a, b) ==
  /\ ~IsNaN(a)
  /\ ~IsNaN(b)
  /\ IF ~IsFinite(a) /\ ~IsFinite(b) THEN a.n < b.n
     ELSE a.n * b.d < b.n * a.d

\* a >= b; false when either is NaN.
NGe(a, b) == ~IsNaN(a) /\ ~IsNaN(b) /\ ~NLt(a, b)

NGt(a, b) == NLt(b, a)

\* Math.floor
NFloor(x) == IF IsFinite(x) THEN Int2Num(x.n \div x.d) ELSE x

\* Math.round: floor(x + 1/2)
NRound(x) == NFloor(NAdd(x, Rat(1, 2)))

\* ToIntegerOrInfinity: NaN to 0, truncation towards zero.
NTrunc(x) ==
  IF IsNaN(x) THEN Zero
  ELSE IF ~IsFinite(x) THEN x
  ELSE Int2Num(Sign(x.n) * (Abs(x.n) \div x.d))

\* The % operator on an integral (or non-finite) dividend and a positive
\* integer divisor: the result has the sign of the dividend.
NRem(x, m) ==
  IF ~IsFinite(x) THEN NaNNum
  ELSE Int2Num(Sign(x.n) * ((Abs(x.n) \div x.d) % m))

\* Math.max
NMax(a, b) ==
  IF IsNaN(a) \/ IsNaN(b) THEN NaNNum
  ELSE IF NLt(a, b) THEN b ELSE a

\* ------------------------------------------------------------------------
\* JavaScript strings (sequences of UTF-16 code units)
\* ------------------------------------------------------------------------

\* ""
S_empty == <<>>

\* "all"
S_all == <<97, 108, 108>>

\* "abc"
S_abc == <<97, 98, 99>>

\* "news"
S_news == <<110, 101, 119, 115>>

\* "meme"
S_meme == <<109, 101, 109, 101>>

\* "Infinity"
S_Infinity == <<73, 110, 102, 105, 110, 105, 116, 121>>

\* "NaN"
S_NaN == <<78, 97, 78>>

\* "Без типа"
S_BezTipa == <<1041, 1077, 1079, 32, 1090, 1080, 1087, 1072>>

C_colon == 58

C_dash == 45

C_plus == 43

C_dot == 46

C_T == 84

C_Z == 90

C_zero == 48

IsDigit(c) == c \in 48..57

IsSpace(c) == c \in {9, 10, 11, 12, 13, 32, 160}

AllDigits(s) == \A i \in 1..Len(s) : IsDigit(s[i])

RECURSIVE DigitsValue(_)
DigitsValue(s) ==
  IF s = <<>> THEN 0
  ELSE 10 * DigitsValue(SubSeq(s, 1, Len(s) - 1)) + (s[Len(s)] - C_zero)

RECURSIVE Pow10(_)
Pow10(k) == IF k = 0 THEN 1 ELSE 10 * Pow10(k - 1)

RECURSIVE TrimStart(_)
TrimStart(s) ==
  IF s # <<>> /\ IsSpace(s[1]) THEN TrimStart(Tail(s)) ELSE s

RECURSIVE TrimEnd(_)
TrimEnd(s) ==
  IF s # <<>> /\ IsSpace(s[Len(s)]) THEN TrimEnd(SubSeq(s, 1, Len(s) - 1))
  ELSE s

\* String.prototype.trim
Trim(s) == TrimEnd(TrimStart(s))

\* Index of the first occurrence of code unit c in s, 0 when there is none.
IndexOf(s, c) ==
  IF \E i \in 1..Len(s) : s[i] = c
  THEN CHOOSE i \in 1..Len(s) : s[i] = c /\ \A j \in 1..(i - 1) : s[j] # c
  ELSE 0

\* String.prototype.split(sep) for a one-unit separator.
RECURSIVE Split(_, _)
Split(s, c) ==
  LET p == IndexOf(s, c)
  IN  IF p = 0 THEN <<s>>
      ELSE <<SubSeq(s, 1, p - 1)>> \o Split(SubSeq(s, p + 1, Len(s)), c)

\* An unsigned decimal literal: digits, digits.digits, digits. or .digits
\* (exponents and radix prefixes are not among the model's inputs).
IsUnsignedDecimal(s) ==
  LET p == IndexOf(s, C_dot)
  IN  IF p = 0 THEN s # <<>> /\ AllDigits(s)
      ELSE /\ AllDigits(SubSeq(s, 1, p - 1))
           /\ AllDigits(SubSeq(s, p + 1, Len(s)))
           /\ Len(s) > 1

UnsignedDecimalValue(s) ==
  LET p == IndexOf(s, C_dot)
  IN  IF p = 0 THEN Int2Num(DigitsValue(s))
      ELSE LET ip == SubSeq(s, 1, p - 1)
               fp == SubSeq(s, p + 1, Len(s))
           IN  Rat(DigitsValue(ip) * Pow10(Len(fp)) + DigitsValue(fp),
                   Pow10(Len(fp)))

\* ToNumber applied to a string: Number("12.5"), Number(""), Number("abc").
StringToNumber(s) ==
  LET t == Trim(s)
      signed == t # <<>> /\ t[1] \in {C_plus, C_dash}
      body == IF signed THEN Tail(t) ELSE t
      neg == signed /\ t[1] = C_dash
  IN  IF t = <<>> THEN Zero
      ELSE IF body = S_Infinity THEN (IF neg THEN NegInf ELSE PosInf)
      ELSE IF IsUnsignedDecimal(body)
           THEN (IF neg THEN NNeg(UnsignedDecimalValue(body))
                 ELSE UnsignedDecimalValue(body))
      ELSE NaNNum

\* The decimal digits of a natural number.
RECURSIVE NatToString(_)
NatToString(k) ==
  IF k < 10 THEN <<C_zero + k>>
  ELSE NatToString(k \div 10) \o <<C_zero + (k % 10)>>

\* String(x) for a number (integral values, NaN and the infinities; the
\* model's inputs hold no fractional number where a text is expected).
NumberToString(x) ==
  IF IsNaN(x) THEN S_NaN
  ELSE IF ~IsFinite(x) THEN (IF x.n < 0 THEN <<C_dash>> ELSE <<>>) \o S_Infinity
  ELSE IF x.n < 0 THEN <<C_dash>> \o NatToString((-x.n) \div x.d)
  ELSE NatToString(x.n \div x.d)

\* String.prototype.padStart(w, "0")
RECURSIVE PadStart0(_, _)
PadStart0(s, w) == IF Len(s) >= w THEN s ELSE PadStart0(<<C_zero>> \o s, w)

\* Code unit order, the default order of Array.prototype.sort.
RECURSIVE StrLt(_, _)
StrLt(a, b) ==
  IF b = <<>> THEN FALSE
  ELSE IF a = <<>> THEN TRUE
  ELSE IF a[1] < b[1] THEN TRUE
  ELSE IF a[1] > b[1] THEN FALSE
  ELSE StrLt(Tail(a), Tail(b))

\* ------------------------------------------------------------------------
\* Date: time values, local time, the calendar
\* ------------------------------------------------------------------------

\* Offset of the host's local time from UTC, in seconds (UTC+3, no daylight
\* saving changes).
TZOffset == 3 * 3600

SecPerDay == 24 * 3600

\* Days from 1970-01-01 to the day d of month m (1..12) of year y in the
\* proleptic Gregorian calendar.
DaysFromCivil(y, m, d) ==
  LET yy == IF m <= 2 THEN y - 1 ELSE y
      era == yy \div 400
      yoe == yy - era * 400
      mp == IF m > 2 THEN m - 3 ELSE m + 9
      doy == (153 * mp + 2) \div 5 + d - 1
      doe == yoe * 365 + yoe \div 4 - yoe \div 100 + doy
  IN  era * 146097 + doe - 719468

\* Year, month (1..12) and day of month of the day z days after 1970-01-01.
CivilFromDays(z) ==
  LET zz == z + 719468
      era == zz \div 146097
      doe == zz - era * 146097
      yoe == (doe - doe \div 1460 + doe \div 36524 - doe \div 146096) \div 365
      doy == doe - (365 * yoe + yoe \div 4 - yoe \div 100)
      mp == (5 * doy + 2) \div 153
      dd == doy - (153 * mp + 2) \div 5 + 1
      mm == IF mp < 10 THEN mp + 3 ELSE mp - 9
  IN  [y |-> (yoe + era * 400) + (IF mm <= 2 THEN 1 ELSE 0), m |-> mm, d |-> dd]

\* MakeDay(year, month, date) of ECMAScript: month counts from 0 and may
\* overflow into the years, date may lie outside the month.
MakeDay(year, month0, date) ==
  DaysFromCivil(year + month0 \div 12, (month0 % 12) + 1, 1) + date - 1

\* new Date(y, m, d, H, M, S): the local time with these (integer) fields.
NewDateLocal(y, month0, d, H, M, S) ==
  Int2Num(MakeDay(y, month0, d) * SecPerDay + H * 3600 + M * 60 + S - TZOffset)

\* Local day number and second of the day of a valid time value.
LocalDay(tv) == (tv.n + TZOffset) \div SecPerDay

LocalSecOfDay(tv) == (tv.n + TZOffset) % SecPerDay

\* Date.prototype.setHours(h, m, s, 0): the local day of the date with the
\* given time of day; NaN for an invalid date or a non-finite argument.
\* Arguments are truncated to integers.  (The model's finite arguments stay
\* far from the representable range of time values.)
SetHours(tv, h, m, s) ==
  IF IsNaN(tv) \/ ~IsFinite(h) \/ ~IsFinite(m) \/ ~IsFinite(s) THEN NaNNum
  ELSE Int2Num(LocalDay(tv) * SecPerDay
               + NTrunc(h).n * 3600 + NTrunc(m).n * 60 + NTrunc(s).n
               - TZOffset)

GetFullYear(tv) ==
  IF IsNaN(tv) THEN NaNNum ELSE Int2Num(CivilFromDays(LocalDay(tv)).y)

\* 0 = January
GetMonth(tv) ==
  IF IsNaN(tv) THEN NaNNum ELSE Int2Num(CivilFromDays(LocalDay(tv)).m - 1)

GetDate(tv) ==
  IF IsNaN(tv) THEN NaNNum ELSE Int2Num(CivilFromDays(LocalDay(tv)).d)

\* 0 = Sunday; 1970-01-01 was a Thursday.
GetDay(tv) ==
  IF IsNaN(tv) THEN NaNNum ELSE Int2Num((LocalDay(tv) + 4) % 7)

GetHours(tv) ==
  IF IsNaN(tv) THEN NaNNum ELSE Int2Num(LocalSecOfDay(tv) \div 3600)

GetMinutes(tv) ==
  IF IsNaN(tv) THEN NaNNum ELSE Int2Num((LocalSecOfDay(tv) % 3600) \div 60)

DaysInMonth(y, m) ==
  DaysFromCivil(IF m = 12 THEN y + 1 ELSE y, IF m = 12 THEN 1 ELSE m + 1, 1)
    - DaysFromCivil(y, m, 1)

\* Date.prototype.toISOString of a valid date (years 0..9999):
\* YYYY-MM-DDTHH:mm:ss.sssZ in UTC.  The caller handles the RangeError of
\* an invalid date.
ToISOString(tv) ==
  LET day == tv.n \div SecPerDay
      sec == tv.n % SecPerDay
      c == CivilFromDays(day)
  IN  PadStart0(NatToString(c.y), 4) \o <<C_dash>>
        \o PadStart0(NatToString(c.m), 2) \o <<C_dash>>
        \o PadStart0(NatToString(c.d), 2) \o <<C_T>>
        \o PadStart0(NatToString(sec \div 3600), 2) \o <<C_colon>>
        \o PadStart0(NatToString((sec % 3600) \div 60), 2) \o <<C_colon>>
        \o PadStart0(NatToString(sec % 60), 2) \o <<C_dot, C_zero, C_zero, C_zero, C_Z>>

\* s[a..b] is a run of digits
DigitsAt(s, a, b) == AllDigits(SubSeq(s, a, b))

NumAt(s, a, b) == DigitsValue(SubSeq(s, a, b))

IsISODate(s) ==
  /\ Len(s) >= 10
  /\ DigitsAt(s, 1, 4) /\ s[5] = C_dash
  /\ DigitsAt(s, 6, 7) /\ s[8] = C_dash
  /\ DigitsAt(s, 9, 10)
  /\ NumAt(s, 6, 7) \in 1..12
  /\ NumAt(s, 9, 10) \in 1..DaysInMonth(NumAt(s, 1, 4), NumAt(s, 6, 7))

IsISOTime(s) ==
  /\ Len(s) = 19
  /\ s[11] = C_T
  /\ DigitsAt(s, 12, 13) /\ s[14] = C_colon
  /\ DigitsAt(s, 15, 16) /\ s[17] = C_colon
  /\ DigitsAt(s, 18, 19)
  /\ NumAt(s, 12, 13) \in 0..23
  /\ NumAt(s, 15, 16) \in 0..59
  /\ NumAt(s, 18, 19) \in 0..59

\* new Date(string) for the date-time string format: a date-only form
\* "YYYY-MM-DD" is UTC midnight, a date-time form "YYYY-MM-DDTHH:mm:ss"
\* without offset is local time.  Any other text of the model's inputs is
\* no date in any engine and gives an invalid date.
ParseDateString(s) ==
  IF IsISODate(s) /\ Len(s) = 10
  THEN Int2Num(DaysFromCivil(NumAt(s, 1, 4), NumAt(s, 6, 7), NumAt(s, 9, 10))
               * SecPerDay)
  ELSE IF IsISODate(s) /\ IsISOTime(s)
  THEN NewDateLocal(NumAt(s, 1, 4), NumAt(s, 6, 7) - 1, NumAt(s, 9, 10),
                    NumAt(s, 12, 13), NumAt(s, 15, 16), NumAt(s, 18, 19))
  ELSE NaNNum

\* XLSX.SSF.parse_date_code(v): the calendar fields of a date serial, or
\* null for a serial outside 0..2958465.
ParseDateCode(v) ==
  IF NGt(v, Int2Num(2958465)) \/ NLt(v, Zero) \/ ~IsFinite(v)
  THEN [null |-> TRUE, y |-> 0, m |-> 0, d |-> 0, H |-> 0, M |-> 0, S |-> 0]
  ELSE
    LET date0 == v.n \div v.d
        secs == NMul(Int2Num(SecPerDay), NSub(v, Int2Num(date0)))
        time0 == NFloor(secs).n
        u == NSub(secs, Int2Num(time0))
        bump == NGt(u, Rat(9999, 10000))
        time1 == IF bump THEN time0 + 1 ELSE time0
        roll == bump /\ time1 = SecPerDay
        time == IF roll THEN 0 ELSE time1
        date == IF roll THEN date0 + 1 ELSE date0
        c == IF date = 60 THEN [y |-> 1900, m |-> 2, d |-> 29]
             ELSE IF date = 0 THEN [y |-> 1900, m |-> 1, d |-> 0]
             ELSE CivilFromDays(DaysFromCivil(1900, 1, 1)
                                + (IF date > 60 THEN date - 1 ELSE date) - 1)
    IN  [null |-> FALSE, y |-> c.y, m |-> c.m, d |-> c.d,
         H |-> time \div 3600, M |-> (time \div 60) % 60, S |-> time % 60]

\* ------------------------------------------------------------------------
\* Spreadsheet cells and rows
\* ------------------------------------------------------------------------

\* A cell value of a row object: undefined (the row has no such column), a
\* string (the empty string for a blank cell, from defval: ""), a number or
\* a native Date (v is its time value).
Undef == [t |-> "undef", s |-> <<>>, v |-> Zero]

StrCell(str) == [t |-> "str", s |-> str, v |-> Zero]

NumCell(x) == [t |-> "num", s |-> <<>>, v |-> x]

DateCell(tv) == [t |-> "date", s |-> <<>>, v |-> tv]

\* ToBoolean(cell): if (!value), if (rawTime)
Truthy(c) ==
  CASE c.t = "undef" -> FALSE
    [] c.t = "str" -> c.s # <<>>
    [] c.t = "num" -> NumTruthy(c.v)
    [] c.t = "date" -> TRUE

\* Number(cell) for the cell kinds the numeric columns of the model hold.
ToNumber(c) ==
  CASE c.t = "undef" -> NaNNum
    [] c.t = "str" -> StringToNumber(c.s)
    [] c.t = "num" -> c.v

\* String(cell) for the cell kinds the text columns of the model hold.
ToStr(c) ==
  CASE c.t = "str" -> c.s
    [] c.t = "num" -> NumberToString(c.v)

\* x || 0
OrZero(x) == IF NumTruthy(x) THEN x ELSE Zero

\* const WEEKDAYS = ["Вс", "Пн", "Вт", "Ср", "Чт", "Пт", "Сб"]
WEEKDAYS ==
  << <<1042, 1089>>, <<1055, 1085>>, <<1042, 1090>>, <<1057, 1088>>,
     <<1063, 1090>>, <<1055, 1090>>, <<1057, 1073>> >>

\* The value undefined where a string is expected (WEEKDAYS[NaN]): a
\* sequence that equals no string.
UndefinedStr == <<-1>>

\* WEEKDAYS[i] of JavaScript: undefined unless i is an index of the array.
WeekdayAt(i) ==
  IF IsFinite(i) /\ IsInteger(i) /\ i.n \in 0..6 THEN WEEKDAYS[i.n + 1]
  ELSE UndefinedStr

\* function parseDate(value): Date | null
parseDate(value) ==
  IF ~Truthy(value) THEN [null |-> TRUE, tv |-> NaNNum]
  ELSE IF value.t = "num"
  THEN LET parsed == ParseDateCode(value.v)
       IN  IF parsed.null THEN [null |-> TRUE, tv |-> NaNNum]
           ELSE [null |-> FALSE,
                 tv |-> NewDateLocal(parsed.y,
                                     (IF parsed.m = 0 THEN 1 ELSE parsed.m) - 1,
                                     IF parsed.d = 0 THEN 1 ELSE parsed.d,
                                     parsed.H, parsed.M, parsed.S)]
  ELSE IF value.t = "date" THEN [null |-> FALSE, tv |-> value.v]
  ELSE LET d == ParseDateString(value.s)
       IN  IF IsNaN(d) THEN [null |-> TRUE, tv |-> NaNNum]
           ELSE [null |-> FALSE, tv |-> d]

\* The date after the time cell has been merged into it (the body of
\* if (rawTime) { try { ... } catch { } }, which raises nothing).
MergeTime(tv, rawTime) ==
  IF ~Truthy(rawTime) THEN tv
  ELSE IF rawTime.t = "num"
  THEN LET totalMinutes == NRound(NMul(NMul(rawTime.v, Int2Num(24)), Int2Num(60)))
           hours == NFloor(NDiv(totalMinutes, Int2Num(60)))
           minutes == NRem(totalMinutes, 60)
       IN  SetHours(tv, hours, minutes, Zero)
  ELSE LET timeStr == Trim(ToStr(rawTime))
           parts == Split(timeStr, C_colon)
           hStr == parts[1]
           mStr == IF Len(parts) >= 2 THEN parts[2] ELSE <<C_zero>>
           sStr == IF Len(parts) >= 3 THEN parts[3] ELSE <<C_zero>>
           h == OrZero(StringToNumber(hStr))
           m == OrZero(StringToNumber(mStr))
           sec == OrZero(StringToNumber(sStr))
       IN  SetHours(tv, h, m, sec)

\* The rate derived without the test views > 0.
EngagementRateUnguarded(erRaw, views, reactions) ==
  IF erRaw.t # "undef" /\ erRaw # StrCell(<<>>)
  THEN LET erNum == ToNumber(erRaw)
       IN  IF IsFinite(erNum) THEN NDiv(erNum, Int2Num(100)) ELSE Zero
  ELSE NDiv(reactions, views)

\* let er: the explicit percentage or reactions / views
EngagementRate(erRaw, views, reactions) ==
  IF erRaw.t # "undef" /\ erRaw # StrCell(<<>>)
  THEN LET erNum == ToNumber(erRaw)
       IN  IF IsFinite(erNum) THEN NDiv(erNum, Int2Num(100)) ELSE Zero
  ELSE IF NGt(views, Zero) THEN NDiv(reactions, views) ELSE Zero

NoPost ==
  [id |-> -1, date |-> <<>>, dateObj |-> NaNNum, monthKey |-> <<>>,
   weekdayIndex |-> NaNNum, weekdayLabel |-> <<>>, hour |-> NaNNum,
   views |-> Zero, reactions |-> Zero, er |-> Zero, postType |-> <<>>]

\* const viewsRaw = row[...] ?? row[...]; const views = Number(viewsRaw) || 0
ViewsOf(row) ==
  OrZero(ToNumber(IF row.viewsToday.t # "undef" THEN row.viewsToday
                  ELSE row.viewsTotal))

\* const reactions = Number(reactionsRaw) || 0
ReactionsOf(row) == OrZero(ToNumber(row.reactions))

\* String(row["Тип поста"] ?? "Без типа")
PostTypeOf(row) ==
  ToStr(IF row.postType.t # "undef" THEN row.postType ELSE StrCell(S_BezTipa))

\* `${year}-${month.toString().padStart(2, "0")}`
MonthKeyOf(year, month) ==
  NumberToString(year) \o <<C_dash>> \o PadStart0(NumberToString(month), 2)

\* The object mapRowToPost returns for the merged date dateObj.
PostOf(row, index, dateObj, views, reactions) ==
  [id |-> index,
   date |-> IF row.date.t = "str" THEN row.date.s ELSE ToISOString(dateObj),
   dateObj |-> dateObj,
   monthKey |-> MonthKeyOf(GetFullYear(dateObj),
                           NAdd(GetMonth(dateObj), Int2Num(1))),
   weekdayIndex |-> GetDay(dateObj),
   weekdayLabel |-> WeekdayAt(GetDay(dateObj)),
   hour |-> GetHours(dateObj),
   views |-> views,
   reactions |-> reactions,
   er |-> EngagementRate(row.er, views, reactions),
   postType |-> PostTypeOf(row)]

\* mapRowToPost after parseDate returned the date tv: the time cell is
\* merged in and the record is built; toISOString of an invalid date is a
\* RangeError.
MapDated(row, index, dateObj) ==
  IF row.date.t # "str" /\ IsNaN(dateObj)
  THEN [kind |-> "throw", post |-> NoPost]
  ELSE [kind |-> "post",
        post |-> PostOf(row, index, dateObj, ViewsOf(row), ReactionsOf(row))]

\* function mapRowToPost(row, index): PostRecord | null.  kind is "post"
\* for a record, "null" for a skipped row and "throw" when the call raises.
MapParsed(row, index, pd) ==
  IF pd.null THEN [kind |-> "null", post |-> NoPost]
  ELSE MapDated(row, index, MergeTime(pd.tv, row.time))

mapRowToPost(row, index) == MapParsed(row, index, parseDate(row.date))

\* The row object after mapRowToPost(row, index) has returned or raised.
\* For a native Date in the date cell parseDate returns that very object
\* (return value), so dateObj.setHours(...) of the time merge changes the
\* cell; for a number or a string parseDate builds a new Date and the row
\* keeps its cells.
RowAfterMapRowToPost(row) ==
  IF row.date.t = "date"
  THEN [row EXCEPT !.date = DateCell(MergeTime(row.date.v, row.time))]
  ELSE row

\* ------------------------------------------------------------------------
\* Ingestion: the body of reader.onload
\* ------------------------------------------------------------------------

\* A row object of sheet_to_json: the cells under the columns "Дата",
\* "Время поста", "Количество просмотров в день поста", "Количество
\* просмотров общее", "Количество реакций", "Тип поста" and
\* "ER (Engagement Rate)".
Row(date, time, viewsToday, viewsTotal, reactions, postType, er) ==
  [date |-> date, time |-> time, viewsToday |-> viewsToday,
   viewsTotal |-> viewsTotal, reactions |-> reactions,
   postType |-> postType, er |-> er]

\* json.forEach((row, idx) => ...): the result of mapRowToPost per row.
Mapped(rows) == [i \in 1..Len(rows) |-> mapRowToPost(rows[i], i - 1)]

\* An exception of mapRowToPost leaves forEach and the onload handler.
Throws(rows) == \E i \in 1..Len(rows) : Mapped(rows)[i].kind = "throw"

\* const parsed: the records of the rows that were not skipped, in row
\* order.
RECURSIVE Collect(_, _)
Collect(mapped, k) ==
  IF k = 0 THEN <<>>
  ELSE IF mapped[k].kind = "post"
       THEN Append(Collect(mapped, k - 1), mapped[k].post)
       ELSE Collect(mapped, k - 1)

Parsed(rows) == Collect(Mapped(rows), Len(rows))

\* (a, b) => a.dateObj.getTime() - b.dateObj.getTime()
CompareTime(a, b) == NSub(a.dateObj, b.dateObj)

\* The comparator orders the elements consistently: no difference is NaN,
\* or all differences are 0 or NaN (every pair is then equal to sort).
ConsistentComparator(seq) ==
  \/ \A i \in 1..Len(seq) : ~IsNaN(seq[i].dateObj)
  \/ \A i, j \in 1..Len(seq) : ~NumTruthy(CompareTime(seq[i], seq[j]))

\* Insertion of x behind every element that does not compare after it.
RECURSIVE InsertByTime(_, _)
InsertByTime(sorted, x) ==
  IF sorted = <<>> THEN <<x>>
  ELSE IF NLt(CompareTime(x, sorted[Len(sorted)]), Zero)
       THEN Append(InsertByTime(SubSeq(sorted, 1, Len(sorted) - 1), x),
                   sorted[Len(sorted)])
       ELSE Append(sorted, x)

\* The stable sort by the comparator.
RECURSIVE StableSortByTime(_)
StableSortByTime(seq) ==
  IF seq = <<>> THEN <<>>
  ELSE InsertByTime(StableSortByTime(SubSeq(seq, 1, Len(seq) - 1)),
                    seq[Len(seq)])

\* The sequences with the elements of seq in some order.
Orderings(seq) ==
  { [i \in 1..Len(seq) |-> seq[f[i]]] :
      f \in { g \in [1..Len(seq) -> 1..Len(seq)] :
                \A i, j \in 1..Len(seq) : i # j => g[i] # g[j] } }

\* Array.prototype.sort with the comparator: the stable sort, and an
\* implementation-defined order when the comparator is not consistent.
SortOutcomes(seq) ==
  IF ConsistentComparator(seq) THEN {StableSortByTime(seq)}
  ELSE Orderings(seq)

\* ------------------------------------------------------------------------
\* Memoized values of the component: option lists and the filter
\* ------------------------------------------------------------------------

\* new Set(); forEach(add); Array.from(set): the distinct values in the
\* order of their first occurrence.
RECURSIVE DistinctInOrder(_)
DistinctInOrder(seq) ==
  IF seq = <<>> THEN <<>>
  ELSE LET front == DistinctInOrder(SubSeq(seq, 1, Len(seq) - 1))
           x == seq[Len(seq)]
       IN  IF \E i \in 1..Len(front) : front[i] = x THEN front
           ELSE Append(front, x)

RECURSIVE InsertString(_, _)
InsertString(sorted, x) ==
  IF sorted = <<>> THEN <<x>>
  ELSE IF StrLt(x, sorted[Len(sorted)])
       THEN Append(InsertString(SubSeq(sorted, 1, Len(sorted) - 1), x),
                   sorted[Len(sorted)])
       ELSE Append(sorted, x)

\* Array.prototype.sort() without comparator on strings.
RECURSIVE SortStrings(_)
SortStrings(seq) ==
  IF seq = <<>> THEN <<>>
  ELSE InsertString(SortStrings(SubSeq(seq, 1, Len(seq) - 1)), seq[Len(seq)])

\* const monthOptions = useMemo(..., [posts])
MonthOptionsOf(ps) ==
  SortStrings(DistinctInOrder([i \in 1..Len(ps) |-> ps[i].monthKey]))

\* The post types in the order of the store, without the sort.
PostTypeOptionsUnsorted(ps) ==
  DistinctInOrder([i \in 1..Len(ps) |-> ps[i].postType])

\* const postTypeOptions = useMemo(..., [posts])
PostTypeOptionsOf(ps) ==
  SortStrings(DistinctInOrder([i \in 1..Len(ps) |-> ps[i].postType]))

\* The callback without the weekday test.
FilterKeepsAnyWeekday(p, month, type, weekday) ==
  IF month # S_all /\ p.monthKey # month THEN FALSE
  ELSE IF type # S_all /\ p.postType # type THEN FALSE
  ELSE TRUE

\* The callback of posts.filter
FilterKeeps(p, month, type, weekday) ==
  IF month # S_all /\ p.monthKey # month THEN FALSE
  ELSE IF type # S_all /\ p.postType # type THEN FALSE
  ELSE IF weekday # S_all /\ p.weekdayLabel # weekday THEN FALSE
  ELSE TRUE

\* const filteredPosts = useMemo(..., [posts, selectedMonth,
\* selectedPostType, selectedWeekday])
RECURSIVE FilterPosts(_, _, _, _)
FilterPosts(ps, month, type, weekday) ==
  IF ps = <<>> THEN <<>>
  ELSE LET rest == FilterPosts(SubSeq(ps, 1, Len(ps) - 1), month, type, weekday)
           p == ps[Len(ps)]
       IN  IF FilterKeeps(p, month, type, weekday) THEN Append(rest, p)
           ELSE rest

\* ------------------------------------------------------------------------
\* Aggregators over the filtered records
\* ------------------------------------------------------------------------

\* const GAP_BUCKETS (the labels are presentation and left out)
GAP_BUCKETS ==
  << [id |-> "<6", min |-> Int2Num(0), max |-> Int2Num(6)],
     [id |-> "6-12", min |-> Int2Num(6), max |-> Int2Num(12)],
     [id |-> "12-24", min |-> Int2Num(12), max |-> Int2Num(24)],
     [id |-> "24-48", min |-> Int2Num(24), max |-> Int2Num(48)],
     [id |-> ">48", min |-> Int2Num(48), max |-> PosInf] >>

\* Segments that leave the hour 21 out.
TIME_SEGMENTS_WithGap ==
  << [id |-> "night", minHour |-> Int2Num(0), maxHour |-> Int2Num(6)],
     [id |-> "morning", minHour |-> Int2Num(6), maxHour |-> Int2Num(10)],
     [id |-> "day", minHour |-> Int2Num(10), maxHour |-> Int2Num(17)],
     [id |-> "evening", minHour |-> Int2Num(17), maxHour |-> Int2Num(21)],
     [id |-> "late", minHour |-> Int2Num(22), maxHour |-> Int2Num(24)] >>

\* const TIME_SEGMENTS
TIME_SEGMENTS ==
  << [id |-> "night", minHour |-> Int2Num(0), maxHour |-> Int2Num(6)],
     [id |-> "morning", minHour |-> Int2Num(6), maxHour |-> Int2Num(10)],
     [id |-> "day", minHour |-> Int2Num(10), maxHour |-> Int2Num(17)],
     [id |-> "evening", minHour |-> Int2Num(17), maxHour |-> Int2Num(22)],
     [id |-> "late", minHour |-> Int2Num(22), maxHour |-> Int2Num(24)] >>

\* { viewsSum: 0, erSum: 0, count: 0 }
EmptyAgg == [viewsSum |-> Zero, erSum |-> Zero, count |-> 0]

\* agg.viewsSum += p.views; agg.erSum += p.er; agg.count += 1
AddTo(agg, p) ==
  [viewsSum |-> NAdd(agg.viewsSum, p.views),
   erSum |-> NAdd(agg.erSum, p.er),
   count |-> agg.count + 1]

\* The mean without the test of the count.
AvgViewsUnguarded(agg) == NDiv(agg.viewsSum, Int2Num(agg.count))

\* agg.count ? agg.viewsSum / agg.count : 0
AvgViews(agg) ==
  IF agg.count # 0 THEN NDiv(agg.viewsSum, Int2Num(agg.count)) ELSE Zero

\* agg.count ? (agg.erSum / agg.count) * 100 : 0
AvgErPercent(agg) ==
  IF agg.count # 0
  THEN NMul(NDiv(agg.erSum, Int2Num(agg.count)), Int2Num(100))
  ELSE Zero

\* diffMs / (1000 * 60 * 60), the time values being in seconds here
GapHours(prev, cur) == NDiv(NSub(cur.dateObj, prev.dateObj), Int2Num(3600))

\* GAP_BUCKETS.find(b => gapHours >= b.min && gapHours < b.max): the index
\* of the first such bucket, 0 when find returns undefined.
FindGapBucket(gapHours) ==
  LET hits == {b \in 1..Len(GAP_BUCKETS) :
                 /\ NGe(gapHours, GAP_BUCKETS[b].min)
                 /\ NLt(gapHours, GAP_BUCKETS[b].max)}
  IN  IF hits = {} THEN 0 ELSE CHOOSE b \in hits : \A c \in hits : b <= c

\* ... ?? GAP_BUCKETS[GAP_BUCKETS.length - 1]
GapBucketOf(gapHours) ==
  IF FindGapBucket(gapHours) = 0 THEN Len(GAP_BUCKETS)
  ELSE FindGapBucket(gapHours)

\* The loop body without the fallback: a pair that no bucket matches is
\* left out.
GapAddMatchedOnly(map, prev, cur) ==
  IF FindGapBucket(GapHours(prev, cur)) = 0 THEN map
  ELSE [map EXCEPT ![FindGapBucket(GapHours(prev, cur))] = AddTo(@, cur)]

\* One pass of the loop body of gapStats, for prev = sorted[i - 1] and
\* cur = sorted[i].
GapAdd(map, prev, cur) ==
  [map EXCEPT ![GapBucketOf(GapHours(prev, cur))] = AddTo(@, cur)]

\* The map of gapStats after the passes for the pairs up to sorted[k]
\* (for (let i = 1; i < sorted.length; i++), indices counted from 1 here).
RECURSIVE GapLoop(_, _)
GapLoop(sorted, k) ==
  IF k < 2 THEN [b \in 1..Len(GAP_BUCKETS) |-> EmptyAgg]
  ELSE GapAdd(GapLoop(sorted, k - 1), sorted[k - 1], sorted[k])

GapMap(sorted) == GapLoop(sorted, Len(sorted))

\* What gapStats returns when its sort gives sorted.
GapRows(filtered, sorted) ==
  IF Len(filtered) < 2 THEN <<>>
  ELSE [b \in 1..Len(GAP_BUCKETS) |->
          [bucketId |-> GAP_BUCKETS[b].id,
           avgViews |-> AvgViews(GapMap(sorted)[b]),
           avgErPercent |-> AvgErPercent(GapMap(sorted)[b])]]

\* const gapStats = useMemo(..., [filteredPosts]): the possible values.
gapStats(filtered) ==
  {GapRows(filtered, sorted) : sorted \in SortOutcomes(filtered)}

\* TIME_SEGMENTS.find(s => p.hour >= s.minHour && p.hour < s.maxHour): the
\* index of the first such segment, 0 when find returns undefined.
FindSegment(hour) ==
  LET hits == {k \in 1..Len(TIME_SEGMENTS) :
                 /\ NGe(hour, TIME_SEGMENTS[k].minHour)
                 /\ NLt(hour, TIME_SEGMENTS[k].maxHour)}
  IN  IF hits = {} THEN 0 ELSE CHOOSE k \in hits : \A c \in hits : k <= c

\* ... ?? TIME_SEGMENTS[0]
SegmentOf(hour) == IF FindSegment(hour) = 0 THEN 1 ELSE FindSegment(hour)

\* The map of timeOfDayStats after forEach over the first k records.
RECURSIVE SegmentLoop(_, _)
SegmentLoop(filtered, k) ==
  IF k = 0 THEN [g \in 1..Len(TIME_SEGMENTS) |-> EmptyAgg]
  ELSE [SegmentLoop(filtered, k - 1)
          EXCEPT ![SegmentOf(filtered[k].hour)] = AddTo(@, filtered[k])]

SegmentMap(filtered) == SegmentLoop(filtered, Len(filtered))

\* The rows without the early return for no record.
TimeOfDayRowsAlways(filtered) ==
  [g \in 1..Len(TIME_SEGMENTS) |->
     [segmentId |-> TIME_SEGMENTS[g].id,
      avgViews |-> AvgViews(SegmentMap(filtered)[g]),
      avgErPercent |-> AvgErPercent(SegmentMap(filtered)[g])]]

\* const timeOfDayStats = useMemo(..., [filteredPosts])
timeOfDayStats(filtered) ==
  IF Len(filtered) = 0 THEN <<>>
  ELSE [g \in 1..Len(TIME_SEGMENTS) |->
          [segmentId |-> TIME_SEGMENTS[g].id,
           avgViews |-> AvgViews(SegmentMap(filtered)[g]),
           avgErPercent |-> AvgErPercent(SegmentMap(filtered)[g])]]

\* filteredPosts.reduce((acc, p) => acc + p.views, 0)
RECURSIVE SumViews(_)
SumViews(ps) ==
  IF ps = <<>> THEN Zero
  ELSE NAdd(SumViews(SubSeq(ps, 1, Len(ps) - 1)), ps[Len(ps)].views)

\* filteredPosts.reduce((acc, p) => acc + p.reactions, 0)
RECURSIVE SumReactions(_)
SumReactions(ps) ==
  IF ps = <<>> THEN Zero
  ELSE NAdd(SumReactions(SubSeq(ps, 1, Len(ps) - 1)), ps[Len(ps)].reactions)

\* filteredPosts.reduce((acc, p) => acc + p.er, 0)
RECURSIVE SumEr(_)
SumEr(ps) ==
  IF ps = <<>> THEN Zero
  ELSE NAdd(SumEr(SubSeq(ps, 1, Len(ps) - 1)), ps[Len(ps)].er)

\* The summary with the mean rate as a percentage.
KpiWithErPercent(filtered) ==
  IF Len(filtered) = 0
  THEN [totalPosts |-> 0, avgViews |-> Zero, avgReactions |-> Zero,
        avgEr |-> Zero]
  ELSE [totalPosts |-> Len(filtered),
        avgViews |-> NDiv(SumViews(filtered), Int2Num(Len(filtered))),
        avgReactions |-> NDiv(SumReactions(filtered), Int2Num(Len(filtered))),
        avgEr |-> NMul(NDiv(SumEr(filtered), Int2Num(Len(filtered))),
                       Int2Num(100))]

\* const kpi = useMemo(..., [filteredPosts])
kpi(filtered) ==
  IF Len(filtered) = 0
  THEN [totalPosts |-> 0, avgViews |-> Zero, avgReactions |-> Zero,
        avgEr |-> Zero]
  ELSE [totalPosts |-> Len(filtered),
        avgViews |-> NDiv(SumViews(filtered), Int2Num(Len(filtered))),
        avgReactions |-> NDiv(SumReactions(filtered), Int2Num(Len(filtered))),
        avgEr |-> NDiv(SumEr(filtered), Int2Num(Len(filtered)))]

\* count > 0 ? sum / count : 0
MeanOf(sum, count) == IF count > 0 THEN NDiv(sum, Int2Num(count)) ELSE Zero

\* count > 0 ? (sum / count) * 100 : 0
MeanPercentOf(sum, count) ==
  IF count > 0 THEN NMul(NDiv(sum, Int2Num(count)), Int2Num(100)) ELSE Zero

\* The keys of the Map keyed by p.weekdayIndex, in insertion order (a Map
\* holds NaN as one key).
WeekdayKeys(filtered) ==
  DistinctInOrder([i \in 1..Len(filtered) |-> filtered[i].weekdayIndex])

\* The records added to the entry of the key.
WithWeekday(filtered, key) ==
  SelectSeq(filtered, LAMBDA p : p.weekdayIndex = key)

\* The comparator ([a], [b]) => a - b orders the keys consistently: no key
\* is NaN, or every difference is 0 or NaN.
ConsistentKeyOrder(keys) ==
  \/ \A i \in 1..Len(keys) : ~IsNaN(keys[i])
  \/ \A i, j \in 1..Len(keys) : ~NumTruthy(NSub(keys[i], keys[j]))

RECURSIVE InsertKey(_, _)
InsertKey(sorted, x) ==
  IF sorted = <<>> THEN <<x>>
  ELSE IF NLt(NSub(x, sorted[Len(sorted)]), Zero)
       THEN Append(InsertKey(SubSeq(sorted, 1, Len(sorted) - 1), x),
                   sorted[Len(sorted)])
       ELSE Append(sorted, x)

RECURSIVE StableSortKeys(_)
StableSortKeys(keys) ==
  IF keys = <<>> THEN <<>>
  ELSE InsertKey(StableSortKeys(SubSeq(keys, 1, Len(keys) - 1)), keys[Len(keys)])

\* Array.from(map.entries()).sort(([a], [b]) => a - b): the possible orders
\* of the keys.
SortedWeekdayKeys(filtered) ==
  IF ConsistentKeyOrder(WeekdayKeys(filtered))
  THEN {StableSortKeys(WeekdayKeys(filtered))}
  ELSE Orderings(WeekdayKeys(filtered))

\* The row of viewsByWeekday for the records of one key.
ViewsByWeekdayRow(group) ==
  [weekday |-> group[1].weekdayLabel,
   avgViews |-> MeanOf(SumViews(group), Len(group))]

\* The row of erByWeekday for the records of one key.
ErByWeekdayRow(group) ==
  [weekday |-> group[1].weekdayLabel,
   avgErPercent |-> MeanPercentOf(SumEr(group), Len(group))]

\* const viewsByWeekday = useMemo(..., [filteredPosts]): the possible values.
viewsByWeekday(filtered) ==
  {[k \in 1..Len(order) |-> ViewsByWeekdayRow(WithWeekday(filtered, order[k]))] :
     order \in SortedWeekdayKeys(filtered)}

\* const erByWeekday = useMemo(..., [filteredPosts]): the possible values.
erByWeekday(filtered) ==
  {[k \in 1..Len(order) |-> ErByWeekdayRow(WithWeekday(filtered, order[k]))] :
     order \in SortedWeekdayKeys(filtered)}

\* The keys of the Map keyed by p.postType, in insertion order.
PostTypeKeys(filtered) ==
  DistinctInOrder([i \in 1..Len(filtered) |-> filtered[i].postType])

\* The records added to the entry of the post type.
WithPostType(filtered, key) == SelectSeq(filtered, LAMBDA p : p.postType = key)

\* The item of byPostType for the records of one post type.
PostTypeItem(group) ==
  [postType |-> group[1].postType,
   avgViews |-> MeanOf(SumViews(group), Len(group)),
   avgErPercent |-> MeanPercentOf(SumEr(group), Len(group))]

\* const items = Array.from(map.values()).map(...)
PostTypeItems(filtered) ==
  [k \in 1..Len(PostTypeKeys(filtered)) |->
     PostTypeItem(WithPostType(filtered, PostTypeKeys(filtered)[k]))]

\* (a, b) => b.avgViews - a.avgViews
CompareAvgViews(a, b) == NSub(b.avgViews, a.avgViews)

\* The comparator orders the items consistently (a NaN result counts as 0):
\* no mean is NaN, or every result is 0 or NaN.
ConsistentAvgOrder(items) ==
  \/ \A i \in 1..Len(items) : ~IsNaN(items[i].avgViews)
  \/ \A i, j \in 1..Len(items) :
       ~NumTruthy(CompareAvgViews(items[i], items[j]))

RECURSIVE InsertByAvgViews(_, _)
InsertByAvgViews(sorted, x) ==
  IF sorted = <<>> THEN <<x>>
  ELSE IF NLt(CompareAvgViews(x, sorted[Len(sorted)]), Zero)
       THEN Append(InsertByAvgViews(SubSeq(sorted, 1, Len(sorted) - 1), x),
                   sorted[Len(sorted)])
       ELSE Append(sorted, x)

RECURSIVE StableSortByAvgViews(_)
StableSortByAvgViews(items) ==
  IF items = <<>> THEN <<>>
  ELSE InsertByAvgViews(StableSortByAvgViews(SubSeq(items, 1, Len(items) - 1)),
                        items[Len(items)])

\* const byPostType = useMemo(..., [filteredPosts]): the possible values
\* (items.sort is the stable sort, and implementation-defined when the
\* comparator is not consistent).
byPostType(filtered) ==
  IF ConsistentAvgOrder(PostTypeItems(filtered))
  THEN {StableSortByAvgViews(PostTypeItems(filtered))}
  ELSE Orderings(PostTypeItems(filtered))

\* const key = `${p.weekdayIndex}-${p.hour}`
CellKey(p) ==
  NumberToString(p.weekdayIndex) \o <<C_dash>> \o NumberToString(p.hour)

\* The keys of cellMap, in insertion order.
CellKeys(filtered) ==
  DistinctInOrder([i \in 1..Len(filtered) |-> CellKey(filtered[i])])

\* The records added to the cell of the key.
WithCellKey(filtered, key) == SelectSeq(filtered, LAMBDA p : CellKey(p) = key)

\* The cell pushed for the records of one key.
HeatmapCell(group) ==
  [weekdayIndex |-> group[1].weekdayIndex,
   weekday |-> group[1].weekdayLabel,
   hour |-> group[1].hour,
   avgViews |-> MeanOf(SumViews(group), Len(group))]

\* const cells, after cellMap.forEach
HeatmapCells(filtered) ==
  [k \in 1..Len(CellKeys(filtered)) |->
     HeatmapCell(WithCellKey(filtered, CellKeys(filtered)[k]))]

\* cells.reduce((m, c) => Math.max(m, c.avgViews), 0)
RECURSIVE MaxAvgViews(_)
MaxAvgViews(cells) ==
  IF cells = <<>> THEN Zero
  ELSE NMax(MaxAvgViews(SubSeq(cells, 1, Len(cells) - 1)),
            cells[Len(cells)].avgViews)

\* The heatmap without the default of 1 for the maximum.
HeatmapWithoutDefault(filtered) ==
  [cells |-> HeatmapCells(filtered),
   maxViews |-> MaxAvgViews(HeatmapCells(filtered))]

\* const heatmapData = useMemo(..., [filteredPosts])
heatmapData(filtered) ==
  [cells |-> HeatmapCells(filtered),
   maxViews |-> IF NumTruthy(MaxAvgViews(HeatmapCells(filtered)))
                THEN MaxAvgViews(HeatmapCells(filtered))
                ELSE Int2Num(1)]

\* ------------------------------------------------------------------------
\* Inputs: the rows and spreadsheets the model uploads
\* ------------------------------------------------------------------------

\* "YYYY-MM-DD"
IsoDate(y, m, d) ==
  StrCell(PadStart0(NatToString(y), 4) \o <<C_dash>> \o PadStart0(NatToString(m), 2)
            \o <<C_dash>> \o PadStart0(NatToString(d), 2))

\* "HH:MM:SS"
Hms(h, m, sec) ==
  StrCell(PadStart0(NatToString(h), 2) \o <<C_colon>> \o PadStart0(NatToString(m), 2)
            \o <<C_colon>> \o PadStart0(NatToString(sec), 2))

Views(k) == NumCell(Int2Num(k))

\* The two rows of the example scenario: Monday 2024-01-01, 10:00 and 22:00.
RowNews10 ==
  Row(IsoDate(2024, 1, 1), Hms(10, 0, 0), Views(100), Undef, Views(10),
      StrCell(S_news), Undef)

RowMeme22 ==
  Row(IsoDate(2024, 1, 1), Hms(22, 0, 0), Views(50), Undef, Views(25),
      StrCell(S_meme), Undef)

\* Same instant as RowNews10.
RowTie10 ==
  Row(IsoDate(2024, 1, 1), Hms(10, 0, 0), Views(7), Undef, Views(7),
      StrCell(S_meme), Undef)

\* 6 hours after RowNews10; no views, so a derived rate of 0.
RowNews16 ==
  Row(IsoDate(2024, 1, 1), Hms(16, 0, 0), Views(0), Undef, Views(5),
      StrCell(S_news), Undef)

\* Date serial 45293 = 2024-01-02 with the time fraction 10/24.
RowSerialJan2 ==
  Row(NumCell(Int2Num(45293)), NumCell(Rat(10, 24)), Views(20), Views(99),
      Views(1), StrCell(S_all), Undef)

\* 48 hours after RowNews10.
RowJan3 ==
  Row(IsoDate(2024, 1, 3), Hms(10, 0, 0), Views(40), Undef, Views(4),
      StrCell(S_news), StrCell(<<49, 50, 46, 53>>))

\* Saturday 2024-02-10 18:00; blank "views today" cell, no post type, an
\* explicit rate of 12.5 percent.
RowFeb10 ==
  Row(IsoDate(2024, 2, 10), Hms(18, 0, 0), StrCell(<<>>), Views(30), Views(3),
      Undef, NumCell(Rat(25, 2)))

\* A date-time string, 06:30 in the morning of Monday 2024-01-01.
RowMorning ==
  Row(StrCell(IsoDate(2024, 1, 1).s \o <<C_T>> \o Hms(6, 30, 0).s), Undef,
      Views(60), Undef, StrCell(S_abc), StrCell(S_meme), Undef)

\* A date-only string without time cell: UTC midnight, 03:00 local time of
\* Sunday 2024-01-07.
RowNight ==
  Row(IsoDate(2024, 1, 7), StrCell(<<>>), Views(10), Undef, Views(1),
      StrCell(S_news), Undef)

\* A time cell whose hour is no finite number: the merged date is invalid.
RowInfTime ==
  Row(IsoDate(2024, 1, 1), StrCell(S_Infinity), Views(5), Undef, Views(1),
      StrCell(S_news), Undef)

\* Rows without a date.
RowBadDate ==
  Row(StrCell(S_abc), Hms(10, 0, 0), Views(1), Undef, Views(1),
      StrCell(S_news), Undef)

RowBlankDate ==
  Row(StrCell(<<>>), StrCell(<<>>), Views(1), Undef, Views(1), Undef, Undef)

\* A numeric date with the non-finite time cell.
RowSerialInfTime ==
  Row(NumCell(Int2Num(45292)), StrCell(S_Infinity), Views(5), Undef, Views(1),
      StrCell(S_news), Undef)

\* The spreadsheets the user may pick in the file dialog.
FileCatalogue ==
  << <<RowMeme22, RowNews10, RowTie10>>,
     <<RowBadDate, RowFeb10, RowSerialJan2>>,
     <<RowBadDate, RowBlankDate>>,
     <<RowMeme22, RowInfTime, RowNews10>>,
     <<RowNews10, RowSerialInfTime>> >>

Files == 1..Len(FileCatalogue)

\* What reader.onload computes from each spreadsheet of the catalogue.
CatalogueOutcome ==
  [k \in Files |->
     [throws |-> Throws(FileCatalogue[k]),
      stores |-> IF Throws(FileCatalogue[k]) THEN {}
                 ELSE SortOutcomes(Parsed(FileCatalogue[k]))]]

\* The rows of the generated spreadsheets.
PipelineRows ==
  <<RowNews10, RowTie10, RowMorning, RowNews16, RowMeme22, RowSerialJan2,
    RowJan3, RowFeb10, RowNight, RowInfTime>>

\* The spreadsheets of up to MaxRows of these rows, each row at most once
\* and in the order of the list.
GeneratedFiles ==
  UNION {{[i \in 1..n |-> PipelineRows[pick[i]]] :
            pick \in {f \in [1..n -> 1..Len(PipelineRows)] :
                        \A i, j \in 1..n : i < j => f[i] < f[j]}} :
         n \in 0..MaxRows}

\* The contents of the numeric cells of the generated one-row spreadsheets:
\* absent, blank, text, numbers, negative and non-finite numerals.
ViewsCells ==
  <<Undef, StrCell(<<>>), StrCell(S_abc), Views(0), Views(40),
    StrCell(<<C_dash, 53>>), StrCell(S_Infinity)>>

TotalViewsCells == <<Undef, Views(30)>>

ReactionsCells ==
  <<Undef, StrCell(<<>>), StrCell(S_abc), Views(4), StrCell(<<C_dash, 50>>),
    StrCell(S_Infinity)>>

ErCells ==
  <<Undef, StrCell(<<>>), StrCell(<<49, 50, 46, 53>>), NumCell(Rat(25, 2)),
    StrCell(S_abc), StrCell(S_Infinity), StrCell(<<C_dash, 53>>)>>

\* A row of Monday 2024-01-01 10:00 with the given numeric cells.
CellRow(viewsToday, viewsTotal, reactions, er) ==
  Row(IsoDate(2024, 1, 1), Hms(10, 0, 0), viewsToday, viewsTotal, reactions,
      StrCell(S_news), er)

\* The k-th combination of the cell contents, k counted from 0.
CellRowAt(k) ==
  CellRow(ViewsCells[(k % Len(ViewsCells)) + 1],
          TotalViewsCells[((k \div Len(ViewsCells)) % Len(TotalViewsCells)) + 1],
          ReactionsCells[((k \div (Len(ViewsCells) * Len(TotalViewsCells)))
                            % Len(ReactionsCells)) + 1],
          ErCells[(k \div (Len(ViewsCells) * Len(TotalViewsCells)
                             * Len(ReactionsCells))) + 1])

\* Rows of one day with view counts 5, Infinity, -Infinity and 10; the two
\* non-finite counts share the post type and the hour.
RowViews5 ==
  Row(IsoDate(2024, 1, 1), Hms(9, 0, 0), Views(5), Undef, Views(1),
      StrCell(S_news), Undef)

RowViewsInf ==
  Row(IsoDate(2024, 1, 1), Hms(11, 0, 0), StrCell(S_Infinity), Undef, Views(1),
      StrCell(S_meme), Undef)

RowViewsNegInf ==
  Row(IsoDate(2024, 1, 1), Hms(11, 30, 0), StrCell(<<C_dash>> \o S_Infinity),
      Undef, Views(1), StrCell(S_meme), Undef)

RowViews10 ==
  Row(IsoDate(2024, 1, 1), Hms(13, 0, 0), Views(10), Undef, Views(1),
      StrCell(S_abc), Undef)

ExtremeRows == <<RowViews5, RowViewsInf, RowViewsNegInf, RowViews10>>

\* The spreadsheet with the rows of ExtremeRows picked by the binary digits
\* of k, in the order of the list.
ExtremeFileAt(k) ==
  SelectSeq(ExtremeRows,
            LAMBDA r : \E i \in 1..Len(ExtremeRows) :
                         r = ExtremeRows[i] /\ (k \div (2 ^ (i - 1))) % 2 = 1)

\* The number of one-row spreadsheets of the cell catalogue.
CellFileCount ==
  Len(ViewsCells) * Len(TotalViewsCells) * Len(ReactionsCells) * Len(ErCells)

\* The generated spreadsheets of the cell catalogue: one row per
\* combination of cell contents, then the spreadsheets of ExtremeRows.
CellCatalogue ==
  [f \in 1..(CellFileCount + 2 ^ Len(ExtremeRows)) |->
     IF f <= CellFileCount THEN <<CellRowAt(f - 1)>>
     ELSE ExtremeFileAt(f - CellFileCount - 1)]

\* The date cells of the generated one-row spreadsheets of the time
\* catalogue: a date-only string (UTC midnight, 03:00 local time), the last
\* day of a month, a date-time string (06:30), a date serial (local
\* midnight of 2024-01-02), a date serial with the fraction of noon, and a
\* native Date (Friday 2024-01-05 08:15).
DateCells ==
  <<IsoDate(2024, 1, 1),
    IsoDate(2024, 1, 31),
    StrCell(IsoDate(2024, 1, 1).s \o <<C_T>> \o Hms(6, 30, 0).s),
    NumCell(Int2Num(45293)),
    NumCell(Rat(90587, 2)),
    DateCell(NewDateLocal(2024, 0, 5, 8, 15, 0))>>

\* The time cells: absent, blank, the fractions of midnight, 06:00, 10:00
\* and of 23:59:51, a number above 1, "14:32:05", "14:32", "7", and the
\* texts "abc" and "12:xx".
TimeCells ==
  <<Undef, StrCell(<<>>), NumCell(Zero), NumCell(Rat(1, 4)), NumCell(Rat(10, 24)),
    NumCell(Rat(9999, 10000)), NumCell(Rat(3, 2)), Hms(14, 32, 5),
    StrCell(<<49, 52, C_colon, 51, 50>>), StrCell(<<55>>), StrCell(S_abc),
    StrCell(<<49, 50, C_colon, 120, 120>>)>>

\* A row with the given date and time cells.
TimeRow(date, time) ==
  Row(date, time, Views(10), Undef, Views(1), StrCell(S_news), Undef)

\* The generated spreadsheets of the time catalogue: one row per
\* combination of a date cell and a time cell.
TimeCatalogue ==
  [f \in 1..(Len(DateCells) * Len(TimeCells)) |->
     <<TimeRow(DateCells[((f - 1) % Len(DateCells)) + 1],
               TimeCells[((f - 1) \div Len(DateCells)) + 1])>>]

\* ------------------------------------------------------------------------
\* State
\* ------------------------------------------------------------------------

VARIABLES
  posts,             \* useState<PostRecord[]>([])
  selectedMonth,     \* useState("all")
  selectedPostType,  \* useState("all")
  selectedWeekday,   \* useState("all")
  monthOptions,      \* useMemo, [posts]
  postTypeOptions,   \* useMemo, [posts]
  filteredPosts,     \* useMemo, [posts, selectedMonth, selectedPostType, selectedWeekday]
  readers,           \* the FileReaders still reading, in the order they were started
  ingested,          \* per spreadsheet, what onload computes from its rows
  lastStarted,       \* history: the spreadsheet of the upload started last (0: none)
  lastLoad,          \* history: how the last onload handler ended: "none",
                     \* "threw", "installed", or "replaced" when the store was
                     \* installed over a store that was being filtered
  lastCharts         \* history: the filtered records and the outputs of the
                     \* latest recomputation of the aggregator memos that
                     \* RecomputeAggregates follows, and a bit that flips
                     \* with every recomputation

vars ==
  <<posts, selectedMonth, selectedPostType, selectedWeekday, monthOptions,
    postTypeOptions, filteredPosts, readers, ingested, lastStarted, lastLoad,
    lastCharts>>

Range(seq) == {seq[i] : i \in 1..Len(seq)}

RemoveAt(seq, i) == SubSeq(seq, 1, i - 1) \o SubSeq(seq, i + 1, Len(seq))

\* The render after a state change recomputes the memoized values.
Render ==
  /\ monthOptions' = MonthOptionsOf(posts')
  /\ postTypeOptions' = PostTypeOptionsOf(posts')
  /\ filteredPosts' =
       FilterPosts(posts', selectedMonth', selectedPostType', selectedWeekday')

\* The outputs of the aggregator memos for the filtered records, when the
\* sort of gapStats gives sorted and the sorts of viewsByWeekday,
\* erByWeekday and byPostType give byViews, byEr and byType.
ChartsWith(filtered, sorted, byViews, byEr, byType) ==
  [kpi |-> kpi(filtered),
   viewsByWeekday |-> byViews,
   erByWeekday |-> byEr,
   gapStats |-> GapRows(filtered, sorted),
   timeOfDayStats |-> timeOfDayStats(filtered),
   byPostType |-> byType,
   heatmapData |-> heatmapData(filtered)]

\* The memos of the first render, computed for no record.
NoCharts ==
  [tick |-> 0, input |-> <<>>,
   out |-> ChartsWith(<<>>, <<>>, <<>>, <<>>, <<>>)]

\* gapStats sorting the array of the filter memo itself.
FilteredSortedInPlace(filtered, sorted) == sorted

\* const sorted = [...filteredPosts].sort(...): the spread copies the array
\* of the filter memo, the sort orders the copy and leaves filtered as it
\* was.
FilteredAfterGapStats(filtered, sorted) == filtered

\* The upload prompt shown whenever the filter matches no record.
UploadPromptWhenNothingFiltered == Len(filteredPosts) = 0

\* if (posts.length === 0) return <the upload prompt>; the dashboard is
\* returned otherwise.
UploadPromptShown == Len(posts) = 0

Init ==
  /\ posts = <<>>
  /\ selectedMonth = S_all
  /\ selectedPostType = S_all
  /\ selectedWeekday = S_all
  /\ monthOptions = <<>>
  /\ postTypeOptions = <<>>
  /\ filteredPosts = <<>>
  /\ readers = <<>>
  /\ ingested = CatalogueOutcome
  /\ lastStarted = 0
  /\ lastLoad = "none"
  /\ lastCharts = NoCharts

\* handleFileUpload: the user picked the spreadsheet f; a FileReader starts
\* reading it.
StartUpload(f) ==
  /\ Len(readers) < MaxInflight
  /\ readers' = Append(readers, f)
  /\ lastStarted' = f
  /\ UNCHANGED <<posts, selectedMonth, selectedPostType, selectedWeekday,
                 monthOptions, postTypeOptions, filteredPosts, ingested, lastLoad,
                 lastCharts>>

\* The store replaced without the resets of the selectors.
InstallKeepsSelectors(parsed) ==
  /\ posts' = parsed
  /\ UNCHANGED <<selectedMonth, selectedPostType, selectedWeekday>>

\* The store appended to the previous one instead of replacing it.
InstallMerged(parsed) ==
  /\ posts' = posts \o parsed
  /\ selectedMonth' = S_all
  /\ selectedPostType' = S_all
  /\ selectedWeekday' = S_all

\* setPosts(parsed) and the three selector resets of reader.onload.
InstallStore(parsed) ==
  /\ posts' = parsed
  /\ selectedMonth' = S_all
  /\ selectedPostType' = S_all
  /\ selectedWeekday' = S_all

\* reader.onload of the i-th reader in flight: the rows are normalized,
\* sorted and installed.
ReaderOnLoad(i) ==
  /\ i \in 1..Len(readers)
  /\ ~ingested[readers[i]].throws
  /\ \E parsed \in ingested[readers[i]].stores : InstallStore(parsed)
  /\ Render
  /\ readers' = RemoveAt(readers, i)
  /\ lastLoad' = IF posts # <<>> /\ filteredPosts # posts THEN "replaced"
                 ELSE "installed"
  /\ UNCHANGED <<ingested, lastStarted, lastCharts>>

\* reader.onload of the i-th reader when mapRowToPost raises: the handler
\* ends before setPosts.
ReaderOnLoadThrows(i) ==
  /\ i \in 1..Len(readers)
  /\ ingested[readers[i]].throws
  /\ readers' = RemoveAt(readers, i)
  /\ lastLoad' = "threw"
  /\ UNCHANGED <<posts, selectedMonth, selectedPostType, selectedWeekday,
                 monthOptions, postTypeOptions, filteredPosts, ingested,
                 lastStarted, lastCharts>>

\* onChange of the month select (rendered with the dashboard only).
SetSelectedMonth(m) ==
  /\ posts # <<>>
  /\ m \in {S_all} \cup Range(monthOptions)
  /\ m # selectedMonth
  /\ selectedMonth' = m
  /\ UNCHANGED <<posts, selectedPostType, selectedWeekday>>
  /\ Render
  /\ UNCHANGED <<readers, ingested, lastStarted, lastLoad, lastCharts>>

\* onChange of the post type select.
SetSelectedPostType(t) ==
  /\ posts # <<>>
  /\ t \in {S_all} \cup Range(postTypeOptions)
  /\ t # selectedPostType
  /\ selectedPostType' = t
  /\ UNCHANGED <<posts, selectedMonth, selectedWeekday>>
  /\ Render
  /\ UNCHANGED <<readers, ingested, lastStarted, lastLoad, lastCharts>>

\* The weekdays the user picks in the weekday select: Sunday, Monday and
\* Saturday.
PickedWeekdays == {WEEKDAYS[1], WEEKDAYS[2], WEEKDAYS[7]}

\* onChange of the weekday select.
SetSelectedWeekday(w) ==
  /\ posts # <<>>
  /\ w \in {S_all} \cup Range(WEEKDAYS)
  /\ w # selectedWeekday
  /\ selectedWeekday' = w
  /\ UNCHANGED <<posts, selectedMonth, selectedPostType>>
  /\ Render
  /\ UNCHANGED <<readers, ingested, lastStarted, lastLoad, lastCharts>>

SelectorStep ==
  \/ \E m \in {S_all} \cup Range(monthOptions) : SetSelectedMonth(m)
  \/ \E t \in {S_all} \cup Range(postTypeOptions) : SetSelectedPostType(t)
  \/ \E w \in {S_all} \cup PickedWeekdays : SetSelectedWeekday(w)

Next ==
  \/ \E f \in Files : StartUpload(f)
  \/ \E i \in 1..MaxInflight : ReaderOnLoad(i)
  \/ \E i \in 1..MaxInflight : ReaderOnLoadThrows(i)
  \/ SelectorStep

Spec == Init /\ [][Next]_vars

\* The dashboard over every store one upload of a generated spreadsheet can
\* install; the selectors then change.
InitPipeline ==
  /\ \E rows \in GeneratedFiles :
       /\ ~Throws(rows)
       /\ posts \in SortOutcomes(Parsed(rows))
  /\ selectedMonth = S_all
  /\ selectedPostType = S_all
  /\ selectedWeekday = S_all
  /\ monthOptions = MonthOptionsOf(posts)
  /\ postTypeOptions = PostTypeOptionsOf(posts)
  /\ filteredPosts = posts
  /\ readers = <<>>
  /\ ingested = <<>>
  /\ lastStarted = 0
  /\ lastLoad = "installed"
  /\ lastCharts = NoCharts

SpecPipeline == InitPipeline /\ [][SelectorStep]_vars

\* The dashboard before any upload, for the uploads of the cell catalogue.
InitCells ==
  /\ posts = <<>>
  /\ selectedMonth = S_all
  /\ selectedPostType = S_all
  /\ selectedWeekday = S_all
  /\ monthOptions = <<>>
  /\ postTypeOptions = <<>>
  /\ filteredPosts = <<>>
  /\ readers = <<>>
  /\ ingested = <<>>
  /\ lastStarted = 0
  /\ lastLoad = "none"
  /\ lastCharts = NoCharts

\* handleFileUpload and reader.onload for the spreadsheet f of the cell
\* catalogue, the first upload of the session.
UploadGenerated(f) ==
  /\ lastLoad = "none"
  /\ ~Throws(CellCatalogue[f])
  /\ \E parsed \in SortOutcomes(Parsed(CellCatalogue[f])) : InstallStore(parsed)
  /\ Render
  /\ lastStarted' = f
  /\ lastLoad' = "installed"
  /\ UNCHANGED <<readers, ingested, lastCharts>>

NextCells ==
  \/ \E f \in DOMAIN CellCatalogue : UploadGenerated(f)
  \/ SelectorStep

SpecCells == InitCells /\ [][NextCells]_vars

\* A render that computes the aggregator memos anew for the filtered
\* records (React may discard the cached value of a memo, and calls the
\* function of a memo twice in Strict Mode).
RecomputeAggregates ==
  /\ \E sorted \in SortOutcomes(filteredPosts) :
       \E byViews \in viewsByWeekday(filteredPosts) :
         \E byEr \in erByWeekday(filteredPosts) :
           \E byType \in byPostType(filteredPosts) :
             /\ lastCharts' =
                  [tick |-> 1 - lastCharts.tick,
                   input |-> filteredPosts,
                   out |-> ChartsWith(filteredPosts, sorted, byViews, byEr,
                                      byType)]
             /\ filteredPosts' = FilteredAfterGapStats(filteredPosts, sorted)
  /\ UNCHANGED <<posts, selectedMonth, selectedPostType, selectedWeekday,
                 monthOptions, postTypeOptions, readers, ingested, lastStarted,
                 lastLoad>>

\* The dashboard over every store one upload of a spreadsheet of the
\* catalogue can install.
InitCharts ==
  /\ \E f \in Files : posts \in CatalogueOutcome[f].stores
  /\ selectedMonth = S_all
  /\ selectedPostType = S_all
  /\ selectedWeekday = S_all
  /\ monthOptions = MonthOptionsOf(posts)
  /\ postTypeOptions = PostTypeOptionsOf(posts)
  /\ filteredPosts = posts
  /\ readers = <<>>
  /\ ingested = <<>>
  /\ lastStarted = 0
  /\ lastLoad = "installed"
  /\ lastCharts = NoCharts

NextCharts ==
  \/ RecomputeAggregates
  \/ SelectorStep

SpecCharts == InitCharts /\ [][NextCharts]_vars

\* handleFileUpload and reader.onload for the spreadsheet f of the time
\* catalogue, the first upload of the session.
UploadTimed(f) ==
  /\ lastLoad = "none"
  /\ ~Throws(TimeCatalogue[f])
  /\ \E parsed \in SortOutcomes(Parsed(TimeCatalogue[f])) : InstallStore(parsed)
  /\ Render
  /\ lastStarted' = f
  /\ lastLoad' = "installed"
  /\ UNCHANGED <<readers, ingested, lastCharts>>

NextTimes ==
  \/ \E f \in DOMAIN TimeCatalogue : UploadTimed(f)
  \/ SelectorStep

SpecTimes == InitCells /\ [][NextTimes]_vars

\* ------------------------------------------------------------------------
\* Properties of ingestion (specification Spec)
\* ------------------------------------------------------------------------

\* C1: after any ingestion every record of the store has a timestamp that
\* is a valid instant, never an invalid (NaN) date.
C1_TimestampsValid == \A i \in 1..Len(posts) : ~IsNaN(posts[i].dateObj)

\* C2: the normalizer never raises, so every ingestion completes and
\* installs its store: no onload handler ends in an exception.
C2_NormalizerNeverRaises == lastLoad # "threw"

\* C3: the store is in ascending order of timestamp, records with the same
\* timestamp in ascending order of id.  Only the pairs of records with
\* valid timestamps are compared.
C3_StoreSortedStable ==
  \A i, j \in 1..Len(posts) :
    (i < j /\ ~IsNaN(posts[i].dateObj) /\ ~IsNaN(posts[j].dateObj)) =>
      \/ NLt(posts[i].dateObj, posts[j].dateObj)
      \/ posts[i].dateObj = posts[j].dateObj /\ posts[i].id < posts[j].id

\* The records of each spreadsheet of the catalogue, in row order.
CatalogueParsed == [k \in Files |-> Parsed(FileCatalogue[k])]

\* store holds exactly the records of spreadsheet f, each once.
HoldsExactly(store, f) ==
  /\ Len(store) = Len(CatalogueParsed[f])
  /\ Range(store) = Range(CatalogueParsed[f])

\* C4: the step that completes an upload makes the store exactly the
\* normalized records of that file's rows, whatever the store was, and sets
\* the three selectors to "all" in the same step.
C4_UploadReplacesStore ==
  [][(Len(readers') < Len(readers) /\ lastLoad' # "threw") =>
       /\ \E i \in 1..Len(readers) :
            /\ readers' = RemoveAt(readers, i)
            /\ HoldsExactly(posts', readers[i])
       /\ selectedMonth' = S_all
       /\ selectedPostType' = S_all
       /\ selectedWeekday' = S_all
       /\ filteredPosts' = posts']_vars

\* An upload completed over a non-empty store that was being filtered.
C4_Witness ==
  /\ lastLoad = "replaced"
  /\ posts # <<>>
  /\ readers = <<>>
  /\ selectedMonth = S_all /\ selectedPostType = S_all /\ selectedWeekday = S_all

\* C5: once every read has completed, the store is the one produced by the
\* upload that was started last, in whatever order the reads completed.
C5_LastStartedUploadWins ==
  (readers = <<>> /\ lastStarted # 0 /\ ~ingested[lastStarted].throws) =>
    posts \in ingested[lastStarted].stores

\* C7: the month options are the distinct monthKey values of the store and
\* the post type options the distinct postType values of the store, each
\* in strictly ascending order, whatever the selectors are.
C7_OptionListsInSync ==
  /\ Range(monthOptions) = {posts[i].monthKey : i \in 1..Len(posts)}
  /\ \A i, j \in 1..Len(monthOptions) :
       i < j => StrLt(monthOptions[i], monthOptions[j])
  /\ Range(postTypeOptions) = {posts[i].postType : i \in 1..Len(posts)}
  /\ \A i, j \in 1..Len(postTypeOptions) :
       i < j => StrLt(postTypeOptions[i], postTypeOptions[j])

\* A store of two months and two post types under an active selector, after
\* an upload replaced an earlier store.
C7_Witness ==
  /\ Len(monthOptions) >= 2
  /\ Len(postTypeOptions) >= 2
  /\ selectedMonth # S_all
  /\ lastLoad = "replaced"

\* ------------------------------------------------------------------------
\* Properties of the filter and the aggregators (specification SpecPipeline)
\* ------------------------------------------------------------------------

\* The positions of the store whose record matches every selector that is
\* not "all".
MatchingPositions ==
  {i \in 1..Len(posts) :
     /\ selectedMonth = S_all \/ posts[i].monthKey = selectedMonth
     /\ selectedPostType = S_all \/ posts[i].postType = selectedPostType
     /\ selectedWeekday = S_all \/ posts[i].weekdayLabel = selectedWeekday}

\* C6: the filter returns exactly the records of the store that match every
\* selector that is not "all", in the order of the store; with the three
\* selectors "all" it returns the whole store.
C6_FilterExact ==
  /\ Len(filteredPosts) = Cardinality(MatchingPositions)
  /\ \E at \in [1..Len(filteredPosts) -> MatchingPositions] :
       /\ \A k, l \in 1..Len(filteredPosts) : k < l => at[k] < at[l]
       /\ \A k \in 1..Len(filteredPosts) : filteredPosts[k] = posts[at[k]]
  /\ (selectedMonth = S_all /\ selectedPostType = S_all
        /\ selectedWeekday = S_all) => filteredPosts = posts

\* Two active selectors that keep some records of the store and drop others.
C6_Witness ==
  /\ selectedMonth # S_all
  /\ selectedWeekday # S_all
  /\ filteredPosts # <<>>
  /\ Len(filteredPosts) < Len(posts)

\* The sum of the count fields of the first k entries of an aggregate map.
RECURSIVE CountSum(_, _)
CountSum(map, k) == IF k = 0 THEN 0 ELSE CountSum(map, k - 1) + map[k].count

\* The number of records gapStats has counted when its sort gives sorted.
GapCounted(sorted) ==
  IF Len(filteredPosts) < 2 THEN 0
  ELSE CountSum(GapMap(sorted), Len(GAP_BUCKETS))

\* C8 as stated: the gap-bucket counts sum to the number of filtered
\* records.
C8_GapCountsSumToRecords ==
  \A sorted \in SortOutcomes(filteredPosts) :
    GapCounted(sorted) = Len(filteredPosts)

\* The pass for sorted[k] adds one to the count of exactly one bucket.
CountedOnce(sorted, k) ==
  LET before == GapLoop(sorted, k - 1)
      after == GapLoop(sorted, k)
  IN \E b \in 1..Len(GAP_BUCKETS) :
       /\ after[b].count = before[b].count + 1
       /\ \A c \in 1..Len(GAP_BUCKETS) \ {b} :
            after[c].count = before[c].count

\* C8: gapStats counts every record of its sorted copy except the first in
\* exactly one bucket, so the counts of two or more filtered records sum to
\* their number less one; fewer than two records give no buckets at all.
C8_GapCountsSumToPairs ==
  \A sorted \in SortOutcomes(filteredPosts) :
    /\ Len(filteredPosts) < 2 => GapRows(filteredPosts, sorted) = <<>>
    /\ Len(filteredPosts) >= 2 =>
         /\ Len(GapRows(filteredPosts, sorted)) = Len(GAP_BUCKETS)
         /\ GapCounted(sorted) = Len(filteredPosts) - 1
         /\ \A k \in 2..Len(sorted) : CountedOnce(sorted, k)

\* A filtered part of the store with two pairs, one of them without a
\* bucket that contains its gap.
C8_Witness ==
  /\ Len(filteredPosts) >= 3
  /\ selectedPostType # S_all
  /\ \E sorted \in SortOutcomes(filteredPosts) :
       \E k \in 2..Len(sorted) :
         FindGapBucket(GapHours(sorted[k - 1], sorted[k])) = 0

\* The segments as hour ranges [from, to).
C9_Segments == << <<0, 6>>, <<6, 10>>, <<10, 17>>, <<17, 22>>, <<22, 24>> >>

\* The filtered records whose hour lies in the g-th of these ranges.
C9_InSegment(g) ==
  {i \in 1..Len(filteredPosts) :
     /\ NGe(filteredPosts[i].hour, Int2Num(C9_Segments[g][1]))
     /\ NLt(filteredPosts[i].hour, Int2Num(C9_Segments[g][2]))}

\* The filtered records whose hour is no hour of the day.
C9_InNoSegment ==
  {i \in 1..Len(filteredPosts) :
     \A g \in 1..Len(C9_Segments) : i \notin C9_InSegment(g)}

\* Every hour 0..23 lies in exactly one segment of TIME_SEGMENTS, the one
\* with the range [0,6), [6,10), [10,17), [17,22), [22,24) that holds it,
\* and find returns that segment.
C9_HoursCovered ==
  /\ Len(TIME_SEGMENTS) = Len(C9_Segments)
  /\ \A h \in 0..23 :
       /\ FindSegment(Int2Num(h)) # 0
       /\ \A g \in 1..Len(TIME_SEGMENTS) :
            /\ (/\ NGe(Int2Num(h), TIME_SEGMENTS[g].minHour)
                /\ NLt(Int2Num(h), TIME_SEGMENTS[g].maxHour))
                 <=> (C9_Segments[g][1] <= h /\ h < C9_Segments[g][2])
            /\ (g = FindSegment(Int2Num(h)))
                 <=> (C9_Segments[g][1] <= h /\ h < C9_Segments[g][2])

\* C9: every hour 0..23 lies in exactly one of the five segments and the
\* fallback is not taken for it; every filtered record is counted once, in
\* the segment of its hour (in the first segment when its hour is no hour
\* of the day), and the counts sum to the number of filtered records.
C9_TimeOfDayPartition ==
  /\ C9_HoursCovered
  /\ CountSum(SegmentMap(filteredPosts), Len(TIME_SEGMENTS)) = Len(filteredPosts)
  /\ \A g \in 2..Len(TIME_SEGMENTS) :
       SegmentMap(filteredPosts)[g].count = Cardinality(C9_InSegment(g))
  /\ SegmentMap(filteredPosts)[1].count =
       Cardinality(C9_InSegment(1)) + Cardinality(C9_InNoSegment)

\* Filtered records of three segments, one of them at a segment border
\* (10:00) and one at 22:00.
C9_Witness ==
  /\ selectedMonth # S_all
  /\ Len(filteredPosts) >= 3
  /\ SegmentMap(filteredPosts)[2].count >= 1
  /\ SegmentMap(filteredPosts)[3].count >= 1
  /\ SegmentMap(filteredPosts)[5].count >= 1
  /\ \E i \in 1..Len(filteredPosts) : filteredPosts[i].hour = Int2Num(10)

\* gap lies in the b-th of the ranges [0,6), [6,12), [12,24), [24,48),
\* [48,inf).
C10_Contains(b, gap) ==
  /\ ~IsNaN(gap)
  /\ NGe(gap, Int2Num(<<0, 6, 12, 24, 48>>[b]))
  /\ b < 5 => NLt(gap, Int2Num(<<6, 12, 24, 48>>[b]))

\* The sums over the pairs (sorted[i - 1], sorted[i]), i <= k, whose gap
\* lies in the b-th range: the views and rate of sorted[i] and the number
\* of these pairs.
RECURSIVE C10_SumOfCur(_, _, _)
C10_SumOfCur(sorted, k, b) ==
  IF k < 2 THEN EmptyAgg
  ELSE IF C10_Contains(b, GapHours(sorted[k - 1], sorted[k]))
       THEN [viewsSum |-> NAdd(C10_SumOfCur(sorted, k - 1, b).viewsSum,
                               sorted[k].views),
             erSum |-> NAdd(C10_SumOfCur(sorted, k - 1, b).erSum, sorted[k].er),
             count |-> C10_SumOfCur(sorted, k - 1, b).count + 1]
       ELSE C10_SumOfCur(sorted, k - 1, b)

\* C10: the gap of every consecutive pair of the sorted filtered records
\* lies in exactly one of the ranges [0,6), [6,12), [12,24), [24,48),
\* [48,inf), and each bucket holds the views and rates of the later record
\* of exactly the pairs whose gap lies in its range.
C10_GapBucketOfPair ==
  \A sorted \in SortOutcomes(filteredPosts) :
    Len(filteredPosts) >= 2 =>
      /\ \A k \in 2..Len(sorted) :
           \E b \in 1..5 :
             /\ C10_Contains(b, GapHours(sorted[k - 1], sorted[k]))
             /\ GapBucketOf(GapHours(sorted[k - 1], sorted[k])) = b
      /\ \A b \in 1..5 : GapMap(sorted)[b] = C10_SumOfCur(sorted, Len(sorted), b)

\* The later records of the pairs up to sorted[k] that gapStats puts in
\* the bucket b, in the order of the passes.
RECURSIVE C11_Attributed(_, _, _)
C11_Attributed(sorted, k, b) ==
  IF k < 2 THEN <<>>
  ELSE IF GapBucketOf(GapHours(sorted[k - 1], sorted[k])) = b
       THEN Append(C11_Attributed(sorted, k - 1, b), sorted[k])
       ELSE C11_Attributed(sorted, k - 1, b)

\* The row is the one of the bucket id for the records attributed to it:
\* zeros for no record, else the means of their views and of their rates
\* times 100.
C11_RowOf(row, id, group) ==
  /\ row.bucketId = id
  /\ group = <<>> => row.avgViews = Zero /\ row.avgErPercent = Zero
  /\ group # <<>> =>
       /\ row.avgViews = NDiv(SumViews(group), Int2Num(Len(group)))
       /\ row.avgErPercent =
            NMul(NDiv(SumEr(group), Int2Num(Len(group))), Int2Num(100))

\* C11: gapStats returns the empty list for fewer than two filtered
\* records; otherwise five rows in the order <6, 6-12, 12-24, 24-48, >48,
\* a row of a bucket without records with both means 0 and every other row
\* with the arithmetic means of the values attributed to its bucket.
C11_GapRowsZeroFilled ==
  \A sorted \in SortOutcomes(filteredPosts) :
    LET rows == GapRows(filteredPosts, sorted) IN
    /\ Len(filteredPosts) < 2 => rows = <<>>
    /\ Len(filteredPosts) >= 2 =>
         /\ Len(rows) = 5
         /\ \A b \in 1..5 :
              C11_RowOf(rows[b],
                        <<"<6", "6-12", "12-24", "24-48", ">48">>[b],
                        C11_Attributed(sorted, Len(sorted), b))

\* Three filtered records whose two gaps (3.5 hours and 0 hours) both lie
\* in the first bucket: its row is the mean of 100 and 7 views, the second
\* row is zero-filled.
C11_Witness ==
  /\ Len(filteredPosts) = 3
  /\ \E rows \in gapStats(filteredPosts) :
       /\ Len(rows) = 5
       /\ rows[1].avgViews = Rat(107, 2)
       /\ rows[2].avgViews = Zero /\ rows[2].avgErPercent = Zero

\* The filtered records whose hour timeOfDayStats puts in the segment g.
C12_InSegment(g) ==
  SelectSeq(filteredPosts, LAMBDA p : SegmentOf(p.hour) = g)

\* The row is the one of the segment id for the records of the segment.
C12_RowOf(row, id, group) ==
  /\ row.segmentId = id
  /\ group = <<>> => row.avgViews = Zero /\ row.avgErPercent = Zero
  /\ group # <<>> =>
       /\ row.avgViews = NDiv(SumViews(group), Int2Num(Len(group)))
       /\ row.avgErPercent =
            NMul(NDiv(SumEr(group), Int2Num(Len(group))), Int2Num(100))

\* C12: timeOfDayStats returns the empty list for no filtered record;
\* otherwise five rows in the order night, morning, day, evening, late, a
\* row of a segment without records with both means 0 and every other row
\* with the arithmetic means of views and of the rate times 100.
C12_TimeOfDayRowsZeroFilled ==
  LET rows == timeOfDayStats(filteredPosts) IN
  /\ filteredPosts = <<>> => rows = <<>>
  /\ filteredPosts # <<>> =>
       /\ Len(rows) = 5
       /\ \A g \in 1..5 :
            C12_RowOf(rows[g],
                      <<"night", "morning", "day", "evening", "late">>[g],
                      C12_InSegment(g))

\* Two filtered records in the day segment (100 and 7 views), one in the
\* late segment, under an active selector; the night row is zero-filled.
C12_Witness ==
  /\ Len(filteredPosts) = 3
  /\ selectedMonth # S_all
  /\ timeOfDayStats(filteredPosts)[3].avgViews = Rat(107, 2)
  /\ timeOfDayStats(filteredPosts)[5].avgViews = Int2Num(50)
  /\ timeOfDayStats(filteredPosts)[1].avgViews = Zero

\* The weekday indexes 0..6 that have a filtered record.
C13_Populated ==
  {d \in 0..6 : \E i \in 1..Len(filteredPosts) :
                  filteredPosts[i].weekdayIndex = Int2Num(d)}

\* The filtered records of the weekday index d.
C13_OfDay(d) ==
  SelectSeq(filteredPosts, LAMBDA p : p.weekdayIndex = Int2Num(d))

\* The entries follow the weekday indexes of order: the k-th entry has the
\* label and the means of the records of the k-th index.
C13_EntriesOf(order, views, ers) ==
  /\ Len(views) = Len(order) /\ Len(ers) = Len(order)
  /\ \A k \in 1..Len(order) :
       /\ views[k].weekday = WEEKDAYS[order[k] + 1]
       /\ ers[k].weekday = WEEKDAYS[order[k] + 1]
       /\ views[k].avgViews =
            NDiv(SumViews(C13_OfDay(order[k])), Int2Num(Len(C13_OfDay(order[k]))))
       /\ ers[k].avgErPercent =
            NMul(NDiv(SumEr(C13_OfDay(order[k])),
                      Int2Num(Len(C13_OfDay(order[k])))), Int2Num(100))

\* C13: viewsByWeekday and erByWeekday have one entry for exactly the
\* weekday indexes 0..6 with a filtered record, in ascending order of the
\* index, and no entry for any other weekday.
C13_WeekdayEntries ==
  \E order \in [1..Cardinality(C13_Populated) -> C13_Populated] :
    /\ \A k, l \in 1..Cardinality(C13_Populated) : k < l => order[k] < order[l]
    /\ \A views \in viewsByWeekday(filteredPosts) :
         \A ers \in erByWeekday(filteredPosts) :
           C13_EntriesOf(order, views, ers)

\* The filtered records of the post type.
C14_OfType(type) == SelectSeq(filteredPosts, LAMBDA p : p.postType = type)

\* C14: byPostType has exactly one item per post type of the filtered
\* records, with the mean views and the mean rate times 100 of the records
\* of the type, and the items are in non-increasing order of mean views
\* (only means that are numbers are compared).
C14_PostTypeItems ==
  \A items \in byPostType(filteredPosts) :
    /\ {items[k].postType : k \in 1..Len(items)} =
         {filteredPosts[i].postType : i \in 1..Len(filteredPosts)}
    /\ \A k, l \in 1..Len(items) : k # l => items[k].postType # items[l].postType
    /\ \A k \in 1..Len(items) :
         /\ items[k].avgViews =
              NDiv(SumViews(C14_OfType(items[k].postType)),
                   Int2Num(Len(C14_OfType(items[k].postType))))
         /\ items[k].avgErPercent =
              NMul(NDiv(SumEr(C14_OfType(items[k].postType)),
                        Int2Num(Len(C14_OfType(items[k].postType)))),
                   Int2Num(100))
    /\ \A k, l \in 1..Len(items) :
         (k < l /\ ~IsNaN(items[k].avgViews) /\ ~IsNaN(items[l].avgViews)) =>
           NGe(items[k].avgViews, items[l].avgViews)

\* C15 as stated: maxViews is the maximum of the means of the cells when
\* there is a cell, and 1 when there is none.
C15_MaxIsCellMaximum ==
  /\ heatmapData(filteredPosts).cells = <<>> =>
       heatmapData(filteredPosts).maxViews = Int2Num(1)
  /\ heatmapData(filteredPosts).cells # <<>> =>
       /\ \E k \in 1..Len(heatmapData(filteredPosts).cells) :
            heatmapData(filteredPosts).cells[k].avgViews =
              heatmapData(filteredPosts).maxViews
       /\ \A k \in 1..Len(heatmapData(filteredPosts).cells) :
            NGe(heatmapData(filteredPosts).maxViews,
                heatmapData(filteredPosts).cells[k].avgViews)

\* Every mean of the cells is a number and one of them is greater than 0.
C15_HasPositiveMaximum(cells) ==
  /\ \A k \in 1..Len(cells) : ~IsNaN(cells[k].avgViews)
  /\ \E k \in 1..Len(cells) : NGt(cells[k].avgViews, Zero)

\* C15: maxViews is the maximum of the means of the cells when every mean
\* is a number and the maximum is greater than 0; it is 1 otherwise (no
\* cell, no cell with a positive mean, or a mean that is NaN).
C15_MaxIsPositiveMaximumOrOne ==
  /\ C15_HasPositiveMaximum(heatmapData(filteredPosts).cells) =>
       /\ \E k \in 1..Len(heatmapData(filteredPosts).cells) :
            heatmapData(filteredPosts).cells[k].avgViews =
              heatmapData(filteredPosts).maxViews
       /\ \A k \in 1..Len(heatmapData(filteredPosts).cells) :
            NGe(heatmapData(filteredPosts).maxViews,
                heatmapData(filteredPosts).cells[k].avgViews)
  /\ ~C15_HasPositiveMaximum(heatmapData(filteredPosts).cells) =>
       heatmapData(filteredPosts).maxViews = Int2Num(1)

\* Two cells with the means 5 and 10, the maximum 10.
C15_Witness ==
  /\ Len(heatmapData(filteredPosts).cells) = 2
  /\ heatmapData(filteredPosts).cells[1].avgViews = Int2Num(5)
  /\ heatmapData(filteredPosts).cells[2].avgViews = Int2Num(10)
  /\ heatmapData(filteredPosts).maxViews = Int2Num(10)

\* The filtered records of weekday index d and hour h.
C16_OfCell(d, h) ==
  SelectSeq(filteredPosts,
            LAMBDA p : p.weekdayIndex = Int2Num(d) /\ p.hour = Int2Num(h))

\* The positions of the cells of weekday index d and hour h.
C16_CellsAt(d, h) ==
  {k \in 1..Len(HeatmapCells(filteredPosts)) :
     /\ HeatmapCells(filteredPosts)[k].weekdayIndex = Int2Num(d)
     /\ HeatmapCells(filteredPosts)[k].hour = Int2Num(h)}

\* C16: there is exactly one cell per pair of weekday index 0..6 and hour
\* 0..23 with a filtered record, with the mean views of these records (a
\* mean of 0 included), no cell for a pair without record and no other cell,
\* so never more than 168 cells.
C16_HeatmapCellsOfPairs ==
  /\ \A d \in 0..6 : \A h \in 0..23 :
       /\ C16_OfCell(d, h) = <<>> => C16_CellsAt(d, h) = {}
       /\ C16_OfCell(d, h) # <<>> =>
            /\ Cardinality(C16_CellsAt(d, h)) = 1
            /\ \A k \in C16_CellsAt(d, h) :
                 HeatmapCells(filteredPosts)[k].avgViews =
                   NDiv(SumViews(C16_OfCell(d, h)),
                        Int2Num(Len(C16_OfCell(d, h))))
  /\ \A k \in 1..Len(HeatmapCells(filteredPosts)) :
       \E d \in 0..6 : \E h \in 0..23 : k \in C16_CellsAt(d, h)
  /\ Len(HeatmapCells(filteredPosts)) <= 168

\* The sum of a sequence of numbers, from its head.
RECURSIVE C17_Total(_)
C17_Total(nums) ==
  IF nums = <<>> THEN Zero ELSE NAdd(Head(nums), C17_Total(Tail(nums)))

\* C17: the KPI summary of no filtered record is all 0; otherwise
\* totalPosts is the number of filtered records and avgViews, avgReactions
\* and avgEr are the sums of views, reactions and rate divided by it (avgEr
\* a fraction, not a percentage).
C17_KpiMeans ==
  /\ filteredPosts = <<>> =>
       kpi(filteredPosts) = [totalPosts |-> 0, avgViews |-> Zero,
                             avgReactions |-> Zero, avgEr |-> Zero]
  /\ filteredPosts # <<>> =>
       /\ kpi(filteredPosts).totalPosts = Len(filteredPosts)
       /\ kpi(filteredPosts).avgViews =
            NDiv(C17_Total([i \in 1..Len(filteredPosts) |-> filteredPosts[i].views]),
                 Int2Num(Len(filteredPosts)))
       /\ kpi(filteredPosts).avgReactions =
            NDiv(C17_Total([i \in 1..Len(filteredPosts) |->
                              filteredPosts[i].reactions]),
                 Int2Num(Len(filteredPosts)))
       /\ kpi(filteredPosts).avgEr =
            NDiv(C17_Total([i \in 1..Len(filteredPosts) |-> filteredPosts[i].er]),
                 Int2Num(Len(filteredPosts)))

\* The two records of Monday 10:00 and 22:00 (views 100 and 50, reactions
\* 10 and 25) filtered out of a larger store: means 75, 17.5 and 0.30.
C17_Witness ==
  /\ Len(filteredPosts) = 2
  /\ Len(posts) = 3
  /\ kpi(filteredPosts).totalPosts = 2
  /\ kpi(filteredPosts).avgViews = Int2Num(75)
  /\ kpi(filteredPosts).avgReactions = Rat(35, 2)
  /\ kpi(filteredPosts).avgEr = Rat(3, 10)

\* ------------------------------------------------------------------------
\* Properties of the numeric cells (specification SpecCells)
\* ------------------------------------------------------------------------

\* The row of the uploaded spreadsheet the record p was made from.
RowOfRecord(p) == CellCatalogue[lastStarted][p.id + 1]

\* The cell is present and not the empty text.
IsExplicit(cell) == cell.t # "undef" /\ cell # StrCell(<<>>)

\* The rate of p for the ER cell, by the four cases.
C18_RateByCase(p, cell) ==
  /\ (IsExplicit(cell) /\ IsFinite(ToNumber(cell))) =>
       p.er = NDiv(ToNumber(cell), Int2Num(100))
  /\ (IsExplicit(cell) /\ ~IsFinite(ToNumber(cell))) => p.er = Zero
  /\ (~IsExplicit(cell) /\ NGt(p.views, Zero)) =>
       p.er = NDiv(p.reactions, p.views)
  /\ (~IsExplicit(cell) /\ ~NGt(p.views, Zero)) => p.er = Zero
  /\ (~IsExplicit(cell) /\ p.views = Zero) => IsFinite(p.er)

\* C18: the rate of a record is cell/100 for an ER cell that is present,
\* not empty and a finite number, 0 for one that is present, not empty and
\* no finite number, reactions/views for an absent or empty cell and
\* views > 0, and 0 for an absent or empty cell and views <= 0; with
\* views = 0 the derived rate is neither NaN nor infinite.
C18_EngagementRateCases ==
  \A i \in 1..Len(posts) : C18_RateByCase(posts[i], RowOfRecord(posts[i]).er)

\* A record without ER cell and with 0 views and 4 reactions: the rate is 0.
C18_Witness ==
  /\ Len(posts) = 1
  /\ RowOfRecord(posts[1]).er = Undef
  /\ posts[1].views = Zero
  /\ posts[1].reactions = Int2Num(4)
  /\ posts[1].er = Zero

\* C19: views, reactions and the rate of every record of the store are
\* greater than or equal to 0.
C19_FieldsNonNegative ==
  \A i \in 1..Len(posts) :
    /\ NGe(posts[i].views, Zero)
    /\ NGe(posts[i].reactions, Zero)
    /\ NGe(posts[i].er, Zero)

\* The views cell of the row: "views today", else "total views".
C20_ViewsCell(row) ==
  IF row.viewsToday.t # "undef" THEN row.viewsToday ELSE row.viewsTotal

\* The field is 0 for a cell that is absent, empty or no finite number, and
\* it is a finite number.
C20_FieldOf(value, cell) ==
  /\ (~IsExplicit(cell) \/ ~IsFinite(ToNumber(cell))) => value = Zero
  /\ IsFinite(value)

\* C20: a views or reactions cell that is absent, empty or does not coerce
\* to a finite number gives 0 and the row is accepted; views and reactions
\* of every record of the store are finite numbers.
C20_CellsDefaultToZero ==
  /\ lastStarted # 0 => Len(posts) = Len(CellCatalogue[lastStarted])
  /\ \A i \in 1..Len(posts) :
       /\ C20_FieldOf(posts[i].views, C20_ViewsCell(RowOfRecord(posts[i])))
       /\ C20_FieldOf(posts[i].reactions, RowOfRecord(posts[i]).reactions)

\* The cell the views are to be taken from: "views today" when it holds a
\* value, "total views" when it is absent or the empty cell.
C21_ViewsSource(row) ==
  IF IsExplicit(row.viewsToday) THEN row.viewsToday ELSE row.viewsTotal

\* C21: the views of every record are the number of the "views today" cell
\* of its row when that cell holds a value, and the number of the "total
\* views" cell when the "views today" cell is absent or empty.
C21_ViewsFallback ==
  \A i \in 1..Len(posts) :
    posts[i].views = OrZero(ToNumber(C21_ViewsSource(RowOfRecord(posts[i]))))

\* ------------------------------------------------------------------------
\* Properties of the screens and the selectors (specification Spec)
\* ------------------------------------------------------------------------

\* The step completes the upload of a spreadsheet without a valid row.
C28_EmptyUploadCompletes ==
  /\ Len(readers') < Len(readers)
  /\ lastLoad' # "threw"
  /\ \E i \in 1..Len(readers) :
       readers' = RemoveAt(readers, i) /\ CatalogueParsed[readers[i]] = <<>>

\* C28: the upload prompt is shown exactly in the states with an empty
\* store; a store whose filter selection matches no record shows the
\* dashboard, with a KPI summary of zeros and empty aggregator outputs; and
\* the completion of an upload without a valid row shows the prompt
\* whatever the store was.
C28_PromptIffStoreEmpty ==
  /\ [](UploadPromptShown <=> posts = <<>>)
  /\ []((posts # <<>> /\ filteredPosts = <<>>) =>
          /\ ~UploadPromptShown
          /\ kpi(filteredPosts).totalPosts = 0
          /\ gapStats(filteredPosts) = {<<>>}
          /\ timeOfDayStats(filteredPosts) = <<>>
          /\ heatmapData(filteredPosts).cells = <<>>)
  /\ [][C28_EmptyUploadCompletes => UploadPromptShown']_vars

\* The upload of a spreadsheet without a valid row completed over a store
\* that was being filtered: the prompt is shown again.
C28_Witness ==
  /\ lastLoad = "replaced"
  /\ readers = <<>>
  /\ posts = <<>>
  /\ UploadPromptShown

\* C30: the month selector is "all" or the monthKey of a record of the
\* store and the post type selector is "all" or the postType of a record of
\* the store, in every state that uploads and choices from the option
\* lists lead to.
C30_SelectorsOfCurrentStore ==
  /\ \/ selectedMonth = S_all
     \/ \E i \in 1..Len(posts) : posts[i].monthKey = selectedMonth
  /\ \/ selectedPostType = S_all
     \/ \E i \in 1..Len(posts) : posts[i].postType = selectedPostType

\* Both selectors hold an option of a store that replaced a store which
\* was being filtered.
C30_Witness ==
  /\ lastLoad = "replaced"
  /\ selectedMonth # S_all
  /\ selectedPostType # S_all
  /\ readers = <<>>

\* ------------------------------------------------------------------------
\* Properties of the derived fields (specification SpecPipeline)
\* ------------------------------------------------------------------------

\* The records of ps with the post type type that the month and weekday
\* selectors keep, in the order of ps.
C29_OfType(ps, type, month, weekday) ==
  SelectSeq(ps, LAMBDA p : /\ p.postType = type
                           /\ month = S_all \/ p.monthKey = month
                           /\ weekday = S_all \/ p.weekdayLabel = weekday)

\* C29: the step that chooses an entry of the post type options makes the
\* filtered records exactly the records of that post type (among those
\* the month and weekday selectors keep), whatever the text of the entry.
C29_ChosenTypeRestricts ==
  [][\A t \in Range(postTypeOptions) :
       (selectedPostType # t /\ selectedPostType' = t) =>
         filteredPosts' = C29_OfType(posts', t, selectedMonth', selectedWeekday')]_vars


\* The record's derived fields are those of its timestamp: a weekday index
\* in 0..6 with its label, an hour in 0..23 and the month key YYYY-MM.
C25_DerivedFrom(p) ==
  /\ ~IsNaN(p.dateObj)
  /\ IsInteger(p.weekdayIndex) /\ p.weekdayIndex.n \in 0..6
  /\ p.weekdayIndex.n = (LocalDay(p.dateObj) + 4) % 7
  /\ p.weekdayLabel = WEEKDAYS[p.weekdayIndex.n + 1]
  /\ IsInteger(p.hour) /\ p.hour.n \in 0..23
  /\ p.hour.n = LocalSecOfDay(p.dateObj) \div 3600
  /\ Len(p.monthKey) = 7
  /\ AllDigits(SubSeq(p.monthKey, 1, 4)) /\ p.monthKey[5] = C_dash
  /\ AllDigits(SubSeq(p.monthKey, 6, 7))
  /\ DigitsValue(SubSeq(p.monthKey, 1, 4)) = CivilFromDays(LocalDay(p.dateObj)).y
  /\ DigitsValue(SubSeq(p.monthKey, 6, 7)) = CivilFromDays(LocalDay(p.dateObj)).m

\* C25: the derived fields of every record of the store agree with its
\* timestamp: weekdayIndex in 0..6 is its local weekday, weekdayLabel the
\* label of the table at that index, hour in 0..23 its local hour and
\* monthKey its year and two-digit month.
C25_DerivedFieldsAgree == \A i \in 1..Len(posts) : C25_DerivedFrom(posts[i])

\* ------------------------------------------------------------------------
\* Properties of the date and time cells (specification SpecTimes)
\* ------------------------------------------------------------------------

\* The row of the uploaded spreadsheet of the time catalogue the record p
\* was made from.
TimeRowOfRecord(p) == TimeCatalogue[lastStarted][p.id + 1]

\* The components of a time text.
C22_Parts(cell) == Split(Trim(cell.s), C_colon)

\* The time cell has an accepted shape: a fraction of a day in 0..1, or a
\* text of one to three numbers separated by colons.
C22_Accepted(cell) ==
  \/ /\ cell.t = "num"
     /\ NGe(cell.v, Zero)
     /\ NGe(Int2Num(1), cell.v)
  \/ /\ cell.t = "str"
     /\ cell.s # <<>>
     /\ Len(C22_Parts(cell)) <= 3
     /\ \A k \in 1..Len(C22_Parts(cell)) :
          IsUnsignedDecimal(C22_Parts(cell)[k])

\* The minutes after midnight a time cell of an accepted shape stands for.
C22_MinutesOf(cell) ==
  IF cell.t = "num" THEN NRound(NMul(cell.v, Int2Num(1440))).n
  ELSE StringToNumber(C22_Parts(cell)[1]).n * 60
         + (IF Len(C22_Parts(cell)) >= 2
            THEN StringToNumber(C22_Parts(cell)[2]).n ELSE 0)

\* C22: for a time cell of an accepted shape the hour and the minute of the
\* record are those of the time cell, whatever time of day the date cell
\* carried.
C22_TimeCellOverrides ==
  \A i \in 1..Len(posts) :
    C22_Accepted(TimeRowOfRecord(posts[i]).time) =>
      /\ posts[i].hour =
           Int2Num((C22_MinutesOf(TimeRowOfRecord(posts[i]).time) \div 60) % 24)
      /\ GetMinutes(posts[i].dateObj) =
           Int2Num(C22_MinutesOf(TimeRowOfRecord(posts[i]).time) % 60)

\* The time cell holds a value that has no accepted shape.
C23_Malformed(cell) == Truthy(cell) /\ ~C22_Accepted(cell)

\* C23: a row whose date cell resolves and whose time cell is malformed
\* gives a record, and the timestamp of the record is the one resolved from
\* the date cell alone.
C23_MalformedTimeIgnored ==
  lastStarted # 0 =>
    \A k \in 1..Len(TimeCatalogue[lastStarted]) :
      (/\ ~parseDate(TimeCatalogue[lastStarted][k].date).null
       /\ C23_Malformed(TimeCatalogue[lastStarted][k].time)) =>
        \E i \in 1..Len(posts) :
          /\ posts[i].id = k - 1
          /\ posts[i].dateObj = parseDate(TimeCatalogue[lastStarted][k].date).tv

\* The time cell is a number v with 0 <= v < 1.
C24_DayFraction(cell) ==
  cell.t = "num" /\ NGe(cell.v, Zero) /\ NLt(cell.v, Int2Num(1))

\* The time value of minutes minutes after the local midnight of the day
\* of tv.
C24_AtMinutes(tv, minutes) ==
  Int2Num(LocalDay(tv) * SecPerDay + minutes * 60 - TZOffset)

\* C24: for a numeric time cell v with 0 <= v < 1 the timestamp of the
\* record is round(v * 1440) minutes after the midnight of the calendar day
\* of the date cell, with an hour in 0..23, and on that calendar day.
C24_FractionOnSameDay ==
  \A i \in 1..Len(posts) :
    C24_DayFraction(TimeRowOfRecord(posts[i]).time) =>
      /\ posts[i].dateObj =
           C24_AtMinutes(parseDate(TimeRowOfRecord(posts[i]).date).tv,
                         C22_MinutesOf(TimeRowOfRecord(posts[i]).time))
      /\ posts[i].hour =
           Int2Num(C22_MinutesOf(TimeRowOfRecord(posts[i]).time) \div 60)
      /\ LocalSecOfDay(posts[i].dateObj) \div 3600 \in 0..23
      /\ C22_MinutesOf(TimeRowOfRecord(posts[i]).time) \div 60 \in 0..23
      /\ LocalDay(posts[i].dateObj) =
           LocalDay(parseDate(TimeRowOfRecord(posts[i]).date).tv)

\* C26: after mapRowToPost has handled a row, every cell of the row has
\* the value it had before the call.
C26_RowUntouched ==
  lastStarted # 0 =>
    \A k \in 1..Len(TimeCatalogue[lastStarted]) :
      RowAfterMapRowToPost(TimeCatalogue[lastStarted][k]) =
        TimeCatalogue[lastStarted][k]

\* ------------------------------------------------------------------------
\* Properties of the aggregator memos (specification SpecCharts)
\* ------------------------------------------------------------------------

\* Every sort of the aggregators has a consistent comparator for the
\* records, so that its result is the stable sort and not left to the
\* implementation.
C27_SortsDetermined(filtered) ==
  /\ ConsistentComparator(filtered)
  /\ Cardinality(viewsByWeekday(filtered)) = 1
  /\ Cardinality(erByWeekday(filtered)) = 1
  /\ Cardinality(byPostType(filtered)) = 1

====
